---------------------------- MODULE Spec2Model ----------------------------
(***************************************************************************)
(* A model of the NAPALM driver for Aruba AOS-CX                           *)
(* (src/napalm_aoscx/aoscx.py, class AOSCXDriver).                          *)
(*                                                                         *)
(* The driver object's fields are the state; every public method is one    *)
(* action.  The vendor client (pyaoscx) and the REST transport are the     *)
(* environment: what they return or raise is chosen nondeterministically   *)
(* from bounded sets.                                                      *)
(*                                                                         *)
(* Python values whose type varies at run time are tagged tuples           *)
(* (PyInt, PyStr, PyFloat, PyNone); a dict is a function; a dict whose     *)
(* iteration order matters is a sequence of <<key, value>> pairs; a string *)
(* that the code takes apart is a sequence of one-character strings.       *)
(***************************************************************************)
EXTENDS Integers, Sequences, FiniteSets, TLC

VARIABLES
    session,        \* self.session: 0 is None, h > 0 the h-th Session object
    isAlive,        \* self.isAlive
    session_info,   \* self.session_info["s"]: 0 while the attribute is unset
    issued,         \* number of Session objects constructed so far
    logged_in,      \* device side: handles logged in and not yet logged out
    last,           \* the last call: operation, vendor outcome, what it raised, value
    interface_list, \* what Interface.get_facts returns: <<name, details>> in dict order
    raw_lldp,       \* what LLDPNeighbor.get_facts returns: <<raw key, neighbors>>
    has_django,     \* whether django can be imported where the driver runs
    subsystems,     \* switch.subsystems after Device.get_subsystems
    temp_response,  \* body of the reply to GET system/subsystems?attributes=temp_sensors
    switch,         \* the Device object's other attributes after Device.get
    interface_info, \* per interface name, the Interface object after its get()
    vlan_list,      \* what Vlan.get_facts returns: <<id, facts>> in dict order
    mac_table,      \* per VLAN id, what Mac.get_all returns: <<key, Mac object>>
    configs,        \* the device's running and startup configuration texts
    requests        \* the GETs the last get_config issued, in order, with the replies

driver == <<session, isAlive, session_info, issued, logged_in>>
device ==
    <<interface_list, raw_lldp, has_django, subsystems, temp_response, switch,
      interface_info, vlan_list, mac_table>>
transport == <<configs, requests>>
vars == <<driver, device, last, transport>>

\* ------------------------------------------------------------------ bounds
MaxSessions == 4
\* how many statistics may be present, or absent, in one interface's statistics
MaxStatistics == 1
\* how many digits a part of a port name may have
MaxPortDigits == 2
\* how many local ports an LLDP snapshot may have
MaxLldpPorts == 2

\* ------------------------------------------------------- Python values
PyNone == <<"None">>
PyInt(n) == <<"int", n>>
PyStr(s) == <<"str", s>>
\* a float, held in thousandths: PyFloat(-1000) is -1.0
PyFloat(thousandths) == <<"float", thousandths>>
PyBool(b) == <<"bool", b>>

NoCall ==
    [op |-> "none", args |-> <<>>, vendor |-> "none", raised |-> "none",
     value |-> PyNone]

Returned(op, vendor, value) ==
    [op |-> op, args |-> <<>>, vendor |-> vendor, raised |-> "none",
     value |-> value]
Raised(op, vendor, exc) ==
    [op |-> op, args |-> <<>>, vendor |-> vendor, raised |-> exc,
     value |-> PyNone]
\* the record of a call that took arguments
WithArgs(call, args) == [call EXCEPT !.args = args]
\* the record of a call that raised an exception whose argument names
\* something (the key of a KeyError, the variable of an UnboundLocalError)
WithMessage(call, name) == [call EXCEPT !.value = PyStr(name)]

\* --------------------------------------------------------------- __init__
InitDriver ==
    /\ session = 0
    /\ isAlive = FALSE
    /\ session_info = 0
    /\ issued = 0
    /\ logged_in = {}
    /\ last = NoCall
    /\ requests = <<>>

\* ------------------------------------------------------------------- open
\* What Session.open can do: log in, raise the built-in ConnectionError
\* ("device not available or HTTPS REST is not enabled"), or raise anything
\* else (a login error, say), which open does not catch.
OpenOutcomes == {"ok", "ConnectionError", "LoginError"}

\* self.isAlive after open: set only once session.open has returned
OpenAliveAlways(alive, v) == TRUE
OpenAlive(alive, v) == IF v = "ok" THEN TRUE ELSE alive

\* what open raises
OpenRaises(v) ==
    CASE v = "ok" -> "none"
      [] v = "ConnectionError" -> "ConnectionException"
      [] OTHER -> v

open(v) ==
    /\ issued < MaxSessions
    /\ issued' = issued + 1
    /\ session' = issued + 1
    /\ isAlive' = OpenAlive(isAlive, v)
    /\ session_info' = IF v = "ok" THEN issued + 1 ELSE session_info
    /\ logged_in' = IF v = "ok" THEN logged_in \cup {issued + 1} ELSE logged_in
    /\ last' = IF v = "ok"
                 THEN Returned("open", v, PyNone)
                 ELSE Raised("open", v, OpenRaises(v))
    /\ UNCHANGED <<device, transport>>

\* ------------------------------------------------------------------ close
\* What Session.logout can do with the handle it is given.
LogoutOutcomes == {"ok", "LogoutError"}

close(v) ==
    IF session = 0
    THEN \* self.session.s on None
         /\ v = "ok"
         /\ last' = Raised("close", "none", "AttributeError")
         /\ UNCHANGED <<driver, device, transport>>
    ELSE /\ logged_in' = IF v = "ok" THEN logged_in \ {session} ELSE logged_in
         /\ isAlive' = IF v = "ok" THEN FALSE ELSE isAlive
         /\ last' = IF v = "ok"
                      THEN Returned("close", v, PyNone)
                      ELSE Raised("close", v, v)
         /\ UNCHANGED <<session, session_info, issued, device, transport>>

\* --------------------------------------------------------------- is_alive
is_alive ==
    /\ last' = Returned("is_alive", "none", PyBool(isAlive))
    /\ UNCHANGED <<driver, device, transport>>

\* A driver on which open has succeeded once: the state the fact operations
\* are called in.
OpenedDriver ==
    /\ session = 1
    /\ isAlive = TRUE
    /\ session_info = 1
    /\ issued = 1
    /\ logged_in = {1}
    /\ last = NoCall
    /\ requests = <<>>

\* ------------------------------------------------------------ dict helpers
EmptyDict == <<>>
\* a dict with the key absent, or present with one of the values
Opt(key, values) == {EmptyDict} \cup {key :> v : v \in values}
Has(d, key) == key \in DOMAIN d
\* the dict built by assigning the pairs of a sequence in order
RECURSIVE DictOf(_)
DictOf(pairs) ==
    IF pairs = <<>> THEN EmptyDict
    ELSE LET n == Len(pairs)
         IN  (pairs[n][1] :> pairs[n][2]) @@ DictOf(SubSeq(pairs, 1, n - 1))
\* the ordered dicts over the keys: sequences of <<key, value>> with no key twice
OrderedDicts(keys, values) ==
    {s \in UNION {[1..n -> keys \X values] : n \in 0..Cardinality(keys)} :
        \A i, j \in 1..Len(s) : i # j => s[i][1] # s[j][1]}
Keys(od) == {od[i][1] : i \in 1..Len(od)}

\* --------------------------------------------------------- get_interfaces
\* The interfaces the device may report.
IntfNames == {"1/1/1", "vlan10"}

\* The facts of one interface as get_interfaces reads them.  description, mtu
\* and the two hardware fields are optional; link_state and hw_intf_info are
\* read unconditionally.
HwIntfInfos ==
    {a @@ b : a \in Opt("max_speed", {PyInt(1000)}),
              b \in Opt("mac_addr", {PyStr("aa:bb")})}

InterfaceDetails ==
    {a @@ b @@ c @@ d @@ e :
        a \in Opt("description", {PyNone, PyStr("uplink")}),
        b \in Opt("mtu", {PyInt(1500)}),
        c \in Opt("hw_intf_info", HwIntfInfos),
        d \in Opt("link_state", {PyStr("up"), PyStr("down")}),
        e \in {"admin_state" :> v : v \in {PyStr("up"), PyStr("down")}}}

\* a write-back that is not stable: an empty description is cleared again
FixDescriptionAlternating(d) ==
    IF ~Has(d, "description") \/ d["description"] = PyNone
    THEN ("description" :> PyStr("")) @@ d
    ELSE IF d["description"] = PyStr("")
    THEN ("description" :> PyNone) @@ d
    ELSE d

\* lines 207-208: the description is written back into the facts
FixDescription(d) ==
    IF ~Has(d, "description") \/ d["description"] = PyNone
    THEN ("description" :> PyStr("")) @@ d
    ELSE d

\* the keys get_interfaces indexes without testing for them
InterfaceRequired == {"hw_intf_info", "link_state", "admin_state"}

IsUpFromAdmin(d) == d["admin_state"] = PyStr("up")
IsUp(d) == d["link_state"] = PyStr("up")

IsEnabled(d) == d["admin_state"] = PyStr("up")

SpeedOfMtu(d) == IF ~Has(d, "mtu") THEN PyStr("N/A") ELSE d["mtu"]
SpeedOf(d) ==
    IF ~Has(d["hw_intf_info"], "max_speed")
    THEN PyStr("N/A")
    ELSE d["hw_intf_info"]["max_speed"]

MtuOf(d) == IF ~Has(d, "mtu") THEN PyStr("N/A") ELSE d["mtu"]

MacOf(d) ==
    IF ~Has(d["hw_intf_info"], "mac_addr")
    THEN PyStr("N/A")
    ELSE d["hw_intf_info"]["mac_addr"]

\* lines 221-231, for facts whose description is already fixed
InterfaceEntry(d) ==
    [is_up |-> IsUp(d),
     is_enabled |-> IsEnabled(d),
     description |-> d["description"],
     last_flapped |-> PyFloat(-1000),
     speed |-> SpeedOf(d),
     mtu |-> MtuOf(d),
     mac_address |-> MacOf(d)]

\* the first interface, in dict order, whose facts lack a required key; 0 if none
FirstLacking(facts, required) ==
    LET lacking == {i \in 1..Len(facts) : ~(required \subseteq DOMAIN facts[i][2])}
    IN  IF lacking = {} THEN 0
        ELSE CHOOSE i \in lacking : \A j \in lacking : i <= j

\* What a call of the vendor client can do: return its facts, or raise.
VendorOutcomes == {"ok", "VendorError"}

get_interfaces(v) ==
    LET bad == FirstLacking(interface_list, InterfaceRequired)
        fixed == [i \in 1..Len(interface_list) |->
                    IF bad = 0 \/ i <= bad
                    THEN <<interface_list[i][1], FixDescription(interface_list[i][2])>>
                    ELSE interface_list[i]]
    IN  IF v # "ok"
        THEN \* Interface.get_facts raised: nothing catches it
             /\ last' = Raised("get_interfaces", v, v)
             /\ UNCHANGED <<driver, device, transport>>
        ELSE /\ interface_list' = fixed
             /\ last' = IF bad = 0
                          THEN Returned("get_interfaces", v,
                                 DictOf([i \in 1..Len(fixed) |->
                                    <<fixed[i][1], InterfaceEntry(fixed[i][2])>>]))
                          ELSE Raised("get_interfaces", v, "KeyError")
             /\ UNCHANGED <<driver, raw_lldp, has_django, subsystems,
                             temp_response, switch, interface_info, vlan_list,
                             mac_table, transport>>

\* ------------------------------------------------ get_interfaces_counters
\* lines 275-309: the statistic each counter is read from
CounterSourceDiscardsFromErrors ==
    [tx_octets |-> "tx_bytes",
     rx_octets |-> "rx_bytes",
     tx_unicast_packets |-> "if_hc_out_unicast_packets",
     rx_unicast_packets |-> "if_hc_in_unicast_packets",
     tx_multicast_packets |-> "if_out_multicast_packets",
     rx_multicast_packets |-> "if_in_multicast_packets",
     tx_broadcast_packets |-> "if_out_broadcast_packets",
     rx_broadcast_packets |-> "if_in_broadcast_packets",
     tx_errors |-> "tx_errors",
     rx_errors |-> "rx_errors",
     tx_discards |-> "tx_errors",
     rx_discards |-> "rx_errors"]
CounterSource ==
    [tx_octets |-> "tx_bytes",
     rx_octets |-> "rx_bytes",
     tx_unicast_packets |-> "if_hc_out_unicast_packets",
     rx_unicast_packets |-> "if_hc_in_unicast_packets",
     tx_multicast_packets |-> "if_out_multicast_packets",
     rx_multicast_packets |-> "if_in_multicast_packets",
     tx_broadcast_packets |-> "if_out_broadcast_packets",
     rx_broadcast_packets |-> "if_in_broadcast_packets",
     tx_errors |-> "tx_errors",
     rx_errors |-> "rx_errors",
     tx_discards |-> "tx_dropped",
     rx_discards |-> "rx_dropped"]

\* lines 261-309: every counter starts at 0 and is overwritten by its
\* statistic when the statistics have it
Counter(stats, counter) ==
    IF Has(stats, CounterSource[counter]) THEN stats[CounterSource[counter]] ELSE 0

IntfCounter(stats) == [counter \in DOMAIN CounterSource |-> Counter(stats, counter)]

\* The statistics the device may report: the twelve the driver reads and one
\* it does not, each with a value of its own.
StatisticNames ==
    <<"tx_bytes", "rx_bytes", "if_hc_out_unicast_packets",
      "if_hc_in_unicast_packets", "if_out_multicast_packets",
      "if_in_multicast_packets", "if_out_broadcast_packets",
      "if_in_broadcast_packets", "tx_errors", "rx_errors", "tx_dropped",
      "rx_dropped", "rx_crc_err">>

\* statistics with at most MaxStatistics keys present, or at most that many absent
Statistics ==
    LET n == Len(StatisticNames)
        chosen == {c \in SUBSET (1..n) :
                     \/ Cardinality(c) <= MaxStatistics
                     \/ Cardinality(c) >= n - MaxStatistics}
    IN  {[name \in {StatisticNames[i] : i \in c} |->
            CHOOSE i \in c : StatisticNames[i] = name] : c \in chosen}

CounterDetails == Opt("statistics", Statistics)

get_interfaces_counters(v) ==
    LET bad == FirstLacking(interface_list, {"statistics"})
    IN  /\ last' =
             IF v # "ok" THEN Raised("get_interfaces_counters", v, v)
             ELSE IF bad # 0 THEN Raised("get_interfaces_counters", v, "KeyError")
             ELSE Returned("get_interfaces_counters", v,
                    DictOf([i \in 1..Len(interface_list) |->
                       <<interface_list[i][1],
                         IntfCounter(interface_list[i][2]["statistics"])>>]))
        /\ UNCHANGED <<driver, device, transport>>

\* ----------------------------------------------- get_lldp_neighbors_detail
\* An interface name is a sequence of characters.  The characters of the
\* model: digits, letters, the separators of a name and of its escapes, and
\* what the escapes over the model's hex digits decode to ("DC1", "DC2" and
\* "US" stand for the control characters 0x11, 0x12 and 0x1F, "U+FFFD" for the
\* replacement character an invalid byte decodes to).
WordChars == {"1", "2", "F", "L", "I", "B", "R", "f", "l", "i", "n", "t", "b", "r", "_"}
SpaceChars == {" ", "US"}
NonAsciiChars == {"U+FFFD"}
Alphabet ==
    WordChars \cup SpaceChars \cup NonAsciiChars \cup
    {"/", "%", "-", "!", "\"", "DC1", "DC2"}

NonWordChars == Alphabet \ WordChars
\* what django's slugify removes, and what it turns into hyphens
DjangoRemoved == Alphabet \ (WordChars \cup SpaceChars \cup {"-"})
DjangoSeparators == SpaceChars \cup {"-"}

HexDigits == {"1", "2", "F"}

\* the character the escape %ab stands for
Unhex(a, b) ==
    CASE <<a, b>> = <<"2", "F">> -> "/"
      [] <<a, b>> = <<"2", "1">> -> "!"
      [] <<a, b>> = <<"2", "2">> -> "\""
      [] <<a, b>> = <<"1", "1">> -> "DC1"
      [] <<a, b>> = <<"1", "2">> -> "DC2"
      [] <<a, b>> = <<"1", "F">> -> "US"
      [] OTHER -> "U+FFFD"

\* urllib.parse.unquote: every %ab with two hex digits is decoded, anything
\* else is kept
RECURSIVE unquote(_)
unquote(s) ==
    IF s = <<>> THEN <<>>
    ELSE IF s[1] = "%" /\ Len(s) >= 3 /\ s[2] \in HexDigits /\ s[3] \in HexDigits
         THEN <<Unhex(s[2], s[3])>> \o unquote(SubSeq(s, 4, Len(s)))
         ELSE <<s[1]>> \o unquote(Tail(s))

\* str.lower
ToLower(c) ==
    CASE c = "F" -> "f" [] c = "L" -> "l" [] c = "I" -> "i"
      [] c = "B" -> "b" [] c = "R" -> "r" [] OTHER -> c
Lower(s) == [i \in 1..Len(s) |-> ToLower(s[i])]

\* re.sub(r'[class]+', repl, s): every maximal run of characters of the class
\* becomes repl
RECURSIVE SkipRun(_, _)
SkipRun(s, class) ==
    IF s # <<>> /\ s[1] \in class THEN SkipRun(Tail(s), class) ELSE s
RECURSIVE SubRuns(_, _, _)
SubRuns(s, class, repl) ==
    IF s = <<>> THEN <<>>
    ELSE IF s[1] \in class
         THEN repl \o SubRuns(SkipRun(s, class), class, repl)
         ELSE <<s[1]>> \o SubRuns(Tail(s), class, repl)

\* str.strip(chars)
RECURSIVE LStrip(_, _)
LStrip(s, chars) ==
    IF s # <<>> /\ s[1] \in chars THEN LStrip(Tail(s), chars) ELSE s
RECURSIVE RStrip(_, _)
RStrip(s, chars) ==
    IF s # <<>> /\ s[Len(s)] \in chars
    THEN RStrip(SubSeq(s, 1, Len(s) - 1), chars)
    ELSE s
Strip(s, chars) == RStrip(LStrip(s, chars), chars)

\* line 373, the slugify used when django cannot be imported:
\* re.sub(r'[^\w]+', '-', x).strip('-').lower()
FallbackSlugify(x) ==
    Lower(Strip(SubRuns(x, NonWordChars, <<"-">>), {"-"}))

\* line 370, django.utils.text.slugify: drop what is not ASCII, lower-case,
\* remove what is neither a word character, a space nor a hyphen, turn runs of
\* spaces and hyphens into one hyphen, strip hyphens and underscores
DjangoSlugify(x) ==
    LET ascii == SelectSeq(x, LAMBDA c : c \notin NonAsciiChars)
        kept == SubRuns(Lower(ascii), DjangoRemoved, <<>>)
    IN  Strip(SubRuns(kept, DjangoSeparators, <<"-">>), {"-", "_"})

\* lines 369-373: which slugify there is depends on the installation
slugify(x, django) == IF django THEN DjangoSlugify(x) ELSE FallbackSlugify(x)

\* line 414: f"Int {decoded_intf}"
DisplayName(decoded) == <<"I", "n", "t", " ">> \o decoded

\* lines 411-415: the keys one raw key's entries are assigned to, in order
PublishedKeysWithRaw(raw, django) ==
    <<raw, unquote(raw), slugify(unquote(raw), django), DisplayName(unquote(raw))>>
PublishedKeys(raw, django) ==
    <<unquote(raw), slugify(unquote(raw), django), DisplayName(unquote(raw))>>

\* dict.get(key, default)
Get(d, key, default) == IF Has(d, key) THEN d[key] ELSE default
\* the value of a key of an ordered dict
At(od, key) == od[CHOOSE i \in 1..Len(od) : od[i][1] = key][2]

\* lines 396-397: ''.join(x.lower() for x in capabilities)
RECURSIVE JoinLower(_)
JoinLower(names) ==
    IF names = <<>> THEN <<>> ELSE Lower(Head(names)) \o JoinLower(Tail(names))

\* lines 395-407
LldpEntry(decoded, nbr_data) ==
    LET ni == Get(nbr_data, "neighbor_info", EmptyDict)
    IN  [parent_interface |-> decoded,
         remote_chassis_id |-> Get(nbr_data, "chassis_id", ""),
         remote_system_name |-> Get(ni, "chassis_name", ""),
         remote_port |-> Get(nbr_data, "port_id", ""),
         remote_port_description |-> Get(ni, "port_description", ""),
         remote_system_description |-> Get(ni, "chassis_description", ""),
         remote_system_capab |->
             JoinLower(Get(ni, "chassis_capability_available", <<>>)),
         remote_system_enable_capab |->
             JoinLower(Get(ni, "chassis_capability_enabled", <<>>))]

\* lines 391-408: the entries of one local port, in the order of its neighbors
LldpEntries(decoded, neighbors) ==
    [i \in 1..Len(neighbors) |-> LldpEntry(decoded, neighbors[i][2])]

\* The local ports the device may report: member 1, slot and port each one to
\* MaxPortDigits digits long, and a name with an upper-case letter.
Digits(n) == [i \in 1..n |-> "1"]
PortNames ==
    {<<"1", "/">> \o b \o <<"/">> \o c :
        b \in {Digits(n) : n \in 1..MaxPortDigits},
        c \in {Digits(n) : n \in 1..MaxPortDigits}} \cup {<<"L", "1">>}

\* the key LLDPNeighbor.get_facts gives a port: its name, or its name as it
\* stands in a URI, with every / percent-encoded
RECURSIVE QuoteSlashes(_)
QuoteSlashes(name) ==
    IF name = <<>> THEN <<>>
    ELSE (IF name[1] = "/" THEN <<"%", "2", "F">> ELSE <<name[1]>>)
         \o QuoteSlashes(Tail(name))

\* what the device may report of the neighbors of one port
NeighborInfo ==
    [chassis_name |-> "sw2", port_description |-> "to sw1",
     chassis_description |-> "AOS-CX",
     chassis_capability_available |-> <<<<"B">>, <<"R">>>>,
     chassis_capability_enabled |-> <<<<"R">>>>]
Neighbors ==
    {<<>>,
     <<<<"00:01,1/1/2", [chassis_id |-> "00:01", port_id |-> "1/1/2",
                         neighbor_info |-> NeighborInfo]>>>>}

\* the snapshots of up to MaxLldpPorts ports, all keys in the same form
LldpSnapshots ==
    LET named == {s \in UNION {[1..n -> PortNames \X Neighbors] :
                                 n \in 0..MaxLldpPorts} :
                    \A i, j \in 1..Len(s) : i # j => s[i][1] # s[j][1]}
    IN  named \cup
        {[i \in 1..Len(s) |-> <<QuoteSlashes(s[i][1]), s[i][2]>>] : s \in named}

get_lldp_neighbors_detail(interface, v) ==
    LET decoded_map ==
            DictOf([i \in 1..Len(raw_lldp) |->
                      <<unquote(raw_lldp[i][1]), raw_lldp[i][1]>>])
        raw_keys ==
            IF interface # <<>>
            THEN <<decoded_map[interface]>>
            ELSE [i \in 1..Len(raw_lldp) |-> raw_lldp[i][1]]
        entries(raw) == LldpEntries(unquote(raw), At(raw_lldp, raw))
        \* the assignments of the loop, in order
        assigned(i) ==
            LET keys == PublishedKeys(raw_keys[i], has_django)
            IN  [j \in 1..Len(keys) |-> <<keys[j], entries(raw_keys[i])>>]
        RECURSIVE upto(_)
        upto(n) == IF n = 0 THEN <<>> ELSE upto(n - 1) \o assigned(n)
    IN  /\ last' = WithArgs(
             IF v # "ok"
             THEN \* lines 358-360: the error is logged and {} returned
                  Returned("get_lldp_neighbors_detail", v, EmptyDict)
             ELSE IF interface # <<>> /\ ~Has(decoded_map, interface)
             THEN Returned("get_lldp_neighbors_detail", v, EmptyDict)
             ELSE Returned("get_lldp_neighbors_detail", v,
                           DictOf(upto(Len(raw_keys)))),
             [interface |-> interface])
        /\ UNCHANGED <<driver, device, transport>>

\* lines 326-346: the brief form. Each port is published under the key the
\* vendor client gave it, with the chassis name and the port of each of its
\* neighbors; an error of the vendor client is not caught.
LldpBriefEntry(neighbor) ==
    [hostname |-> neighbor.neighbor_info.chassis_name,
     port |-> neighbor.port_id]

\* a brief form that gives the session up when the vendor client fails
get_lldp_neighbors_drops_session(v) ==
    /\ last' = IF v # "ok"
                THEN Raised("get_lldp_neighbors", v, v)
                ELSE Returned("get_lldp_neighbors", v,
                        DictOf([i \in 1..Len(raw_lldp) |->
                           <<raw_lldp[i][1],
                             [j \in 1..Len(raw_lldp[i][2]) |->
                                LldpBriefEntry(raw_lldp[i][2][j][2])]>>]))
    /\ isAlive' = IF v # "ok" THEN FALSE ELSE isAlive
    /\ UNCHANGED <<session, session_info, issued, logged_in, device, transport>>

get_lldp_neighbors(v) ==
    /\ last' = IF v # "ok"
                THEN Raised("get_lldp_neighbors", v, v)
                ELSE Returned("get_lldp_neighbors", v,
                        DictOf([i \in 1..Len(raw_lldp) |->
                           <<raw_lldp[i][1],
                             [j \in 1..Len(raw_lldp[i][2]) |->
                                LldpBriefEntry(raw_lldp[i][2][j][2])]>>]))
    /\ UNCHANGED <<driver, device, transport>>

\* -------------------------------------------------------- get_environment
\* Python containers whose type the code tests with isinstance: a dict is its
\* items in iteration order, a list its elements.
PyDict(items) == <<"dict", items>>
PyList(items) == <<"list", items>>
IsDict(x) == x[1] = "dict"
IsList(x) == x[1] = "list"
\* len(x) of a dict or a list
PyLen(x) == Len(x[2])
\* bool(x)
Truthy(x) ==
    IF x[1] = "bool" THEN x[2]
    ELSE IF x[1] = "None" THEN FALSE
    ELSE IF x[1] = "int" THEN x[2] # 0
    ELSE Len(x[2]) > 0
\* key in d
In(d, key) == \E i \in 1..PyLen(d) : d[2][i][1] = key
\* d[key]
Item(d, key) == d[2][CHOOSE i \in 1..PyLen(d) : d[2][i][1] = key][2]
\* d.get(key, default)
GetItem(d, key, default) == IF In(d, key) THEN Item(d, key) ELSE default
\* the Python str held by a string value, as a dict key of the result
StrOf(v) == v[2]
\* float(n) of an int
FloatOf(v) == PyFloat(v[2] * 1000)
\* float(n / 1000) of an int: n thousandths
FloatOfThousandth(v) == PyFloat(v[2])

\* how a step of a method ends: with a value, or by raising
Ok(value) == <<"ok", value>>
Err(exc) == <<"raise", exc>>
ErrNamed(exc, name) == <<"raise", exc, name>>
IsOk(r) == r[1] = "ok"

SubsystemKeys == <<"management_module,1/1", "chassis,1">>

\* The loop shared by _get_fan_info, _get_power_supplies and
\* _get_resource_utilization: the category of the first subsystem that has a
\* non-empty one.  Indexing switch.subsystems with a key the device does not
\* have raises KeyError; with no subsystem chosen, the return statement reads
\* a local variable that was never bound.
RECURSIVE FirstNonEmptyFrom(_, _, _, _)
FirstNonEmptyFrom(i, subs, category, variable) ==
    IF i > Len(SubsystemKeys) THEN ErrNamed("UnboundLocalError", variable)
    ELSE IF SubsystemKeys[i] \notin DOMAIN subs
    THEN ErrNamed("KeyError", SubsystemKeys[i])
    ELSE IF PyLen(subs[SubsystemKeys[i]][category]) > 0
    THEN Ok(subs[SubsystemKeys[i]][category])
    ELSE FirstNonEmptyFrom(i + 1, subs, category, variable)
FirstNonEmpty(subs, category, variable) ==
    FirstNonEmptyFrom(1, subs, category, variable)

_get_fan_info(subs) == FirstNonEmpty(subs, "fans", "fan_info_dict")
_get_power_supplies(subs) ==
    FirstNonEmpty(subs, "power_supplies", "power_supply_dict")
_get_resource_utilization(subs) ==
    FirstNonEmpty(subs, "resource_utilization", "resources_dict")

\* _get_temperature: [] for a reply that is not OK; otherwise the sensors of
\* every subsystem whose temp_sensors is a list, one after the other.
RECURSIVE TempInfoList(_)
TempInfoList(subs) ==
    IF subs = <<>> THEN <<>>
    ELSE LET got == GetItem(Head(subs), "temp_sensors", PyNone)
             sensors == IF Truthy(got) THEN got ELSE PyList(<<>>)
         IN  (IF IsList(sensors) THEN sensors[2] ELSE <<>>)
             \o TempInfoList(Tail(subs))

_get_temperature(ok, data) ==
    IF ~ok THEN PyList(<<>>)
    ELSE PyList(TempInfoList(GetItem(data, "subsystems", PyList(<<>>))[2]))

\* a list of records each of which must have the keys indexed
Lacks(records, keys) ==
    \E i \in 1..Len(records) : \E k \in keys : ~In(records[i], k)

\* fan_dict, lines 446-457
FanDict(fan_details) ==
    LET items == fan_details[2]
        of_details(details) ==
            IF IsDict(details) /\ In(details, "status")
            THEN PyBool(Item(details, "status") = PyStr("ok"))
            ELSE PyBool(Truthy(details))
    IN  IF IsDict(fan_details)
        THEN Ok(DictOf([i \in 1..Len(items) |->
                           <<items[i][1], of_details(items[i][2])>>]))
        ELSE IF Lacks(items, {"name", "status"}) THEN Err("KeyError")
        ELSE Ok(DictOf([i \in 1..Len(items) |->
                           <<StrOf(Item(items[i], "name")),
                             PyBool(Item(items[i], "status") = PyStr("ok"))>>]))

\* an entry that also raises is_alert for the emergency status
TempEntryAlertOnEmergency(sensor) ==
    [temperature |-> FloatOfThousandth(Item(sensor, "temperature")),
     is_alert |-> PyBool(Item(sensor, "status") \in {PyStr("critical"), PyStr("emergency")}),
     is_critical |-> PyBool(Item(sensor, "status") = PyStr("emergency"))]

\* one sensor of temp_dict, lines 464-476
TempEntry(sensor) ==
    [temperature |-> FloatOfThousandth(Item(sensor, "temperature")),
     is_alert |-> PyBool(Item(sensor, "status") = PyStr("critical")),
     is_critical |-> PyBool(Item(sensor, "status") = PyStr("emergency"))]

\* temp_dict, lines 460-478
TempDict(temp_details) ==
    LET items == temp_details[2]
    IN  IF IsDict(temp_details)
        THEN IF Lacks([i \in 1..Len(items) |-> items[i][2]],
                      {"temperature", "status"})
             THEN Err("KeyError")
             ELSE Ok(DictOf([i \in 1..Len(items) |->
                                <<items[i][1], TempEntry(items[i][2])>>]))
        ELSE IF Lacks(items, {"location", "temperature", "status"})
        THEN Err("KeyError")
        ELSE Ok(DictOf([i \in 1..Len(items) |->
                           <<StrOf(Item(items[i], "location")),
                             TempEntry(items[i])>>]))

PsuEntry(status, capacity) ==
    [status |-> PyBool(status), capacity |-> capacity, output |-> PyStr("N/A")]

\* capacity of a power supply given as a list element, line 501
HasMaximumPower(psu) ==
    In(psu, "characteristics") /\ In(Item(psu, "characteristics"), "maximum_power")

\* psu_dict, lines 481-505
PsuDict(psu_details) ==
    LET items == psu_details[2]
        of_specs(specs) ==
            IF IsDict(specs)
            THEN PsuEntry(GetItem(specs, "status", PyNone) = PyStr("ok"),
                          FloatOf(GetItem(GetItem(specs, "characteristics",
                                                  PyDict(<<>>)),
                                          "maximum_power", PyInt(0))))
            ELSE PsuEntry(Truthy(specs), PyFloat(0))
    IN  IF IsDict(psu_details)
        THEN Ok(DictOf([i \in 1..Len(items) |->
                           <<items[i][1], of_specs(items[i][2])>>]))
        ELSE IF Lacks(items, {"name", "status"})
                \/ \E i \in 1..Len(items) : ~HasMaximumPower(items[i])
        THEN Err("KeyError")
        ELSE Ok(DictOf([i \in 1..Len(items) |->
                 <<StrOf(Item(items[i], "name")),
                   PsuEntry(Item(items[i], "status") = PyStr("ok"),
                            FloatOf(Item(Item(items[i], "characteristics"),
                                         "maximum_power")))>>]))

MemDict(used) == [available_ram |-> PyStr("N/A"), used_ram |-> used]

\* cpu_dict and mem_dict, lines 508-528
Resources(resources_details) ==
    LET items == resources_details[2]
        util(i) == Item(items[i], "resource_utilization")
    IN  IF IsDict(resources_details)
        THEN Ok([cpu |-> ("%usage" :> GetItem(resources_details, "cpu", PyNone)),
                 memory |-> MemDict(GetItem(resources_details, "memory", PyNone))])
        ELSE IF items = <<>> THEN Ok([cpu |-> EmptyDict, memory |-> EmptyDict])
        ELSE IF Lacks(items, {"name", "resource_utilization"})
                \/ \E i \in 1..Len(items) :
                      ~In(util(i), "cpu") \/ ~In(util(i), "memory")
        THEN Err("KeyError")
        ELSE Ok([cpu |-> DictOf([i \in 1..Len(items) |->
                            <<StrOf(Item(items[i], "name")),
                              ("%usage" :> Item(util(i), "cpu"))>>]),
                 memory |-> MemDict(Item(util(Len(items)), "memory"))])

EnvironmentOutcomes == {"ok", "VendorError", "HttpNotOk"}

\* get_environment.  self.session_info is read first (AttributeError on a
\* driver that was never opened); each of the three subsystem look-ups fetches
\* the device through the vendor client, whose error is not caught; the reply
\* to the temperature request may be not OK.  The first step that raises ends
\* the call.
get_environment(v) ==
    LET fans == LET got == _get_fan_info(subsystems)
                IN  IF IsOk(got) THEN FanDict(got[2]) ELSE got
        temperature == TempDict(_get_temperature(v # "HttpNotOk", temp_response))
        power == LET got == _get_power_supplies(subsystems)
                 IN  IF IsOk(got) THEN PsuDict(got[2]) ELSE got
        resources == LET got == _get_resource_utilization(subsystems)
                     IN  IF IsOk(got) THEN Resources(got[2]) ELSE got
        steps == <<fans, temperature, power, resources>>
        failed == {i \in 1..Len(steps) : ~IsOk(steps[i])}
    IN  /\ last' =
             IF session_info = 0
             THEN Raised("get_environment", v, "AttributeError")
             ELSE IF v = "VendorError"
             THEN Raised("get_environment", v, v)
             ELSE IF failed # {}
             THEN LET step == steps[CHOOSE i \in failed : \A j \in failed : i <= j]
                  IN  IF Len(step) = 3
                      THEN WithMessage(Raised("get_environment", v, step[2]),
                                       step[3])
                      ELSE Raised("get_environment", v, step[2])
             ELSE Returned("get_environment", v,
                           [fans |-> fans[2],
                            temperature |-> temperature[2],
                            power |-> power[2],
                            cpu |-> resources[2].cpu,
                            memory |-> resources[2].memory])
        /\ UNCHANGED <<driver, device, transport>>

\* ---- the snapshots get_environment is run on
Record(fields) == PyDict(fields)
Fan(name, status) ==
    Record(<<<<"name", PyStr(name)>>, <<"status", PyStr(status)>>>>)
\* a power supply: with its maximum power, with characteristics that lack it
\* (maximum_power = -1), or without characteristics (maximum_power = -2)
Psu(name, status, maximum_power) ==
    Record(<<<<"name", PyStr(name)>>, <<"status", PyStr(status)>>>>
           \o (IF maximum_power >= 0
               THEN <<<<"characteristics",
                        Record(<<<<"maximum_power", PyInt(maximum_power)>>>>)>>>>
               ELSE IF maximum_power = -1
               THEN <<<<"characteristics", Record(<<>>)>>>>
               ELSE <<>>))
Utilization(cpu, memory) ==
    Record(<<<<"cpu", PyInt(cpu)>>, <<"memory", PyInt(memory)>>>>)
Module(name, cpu, memory) ==
    Record(<<<<"name", PyStr(name)>>,
             <<"resource_utilization", Utilization(cpu, memory)>>>>)
Sensor(location, temperature, status) ==
    Record(<<<<"location", PyStr(location)>>,
             <<"temperature", PyInt(temperature)>>,
             <<"status", PyStr(status)>>>>)

\* the same records as a mapping keyed by a field of theirs, and as a list
AsMapping(records, key) ==
    PyDict([i \in 1..Len(records) |->
               <<StrOf(Item(records[i], key)), records[i]>>])
AsSequence(records) == PyList(records)
BothShapes(contents, key) ==
    {AsMapping(c, key) : c \in contents} \cup {AsSequence(c) : c \in contents}

FanShapes ==
    BothShapes({<<>>, <<Fan("fan1", "ok")>>, <<Fan("fan1", "fault")>>,
                <<Fan("fan1", "ok"), Fan("fan2", "fault")>>}, "name")
    \cup {PyDict(<<<<"fan1", PyBool(TRUE)>>>>)}

PsuShapes ==
    BothShapes({<<>>, <<Psu("psu1", "ok", 350)>>, <<Psu("psu1", "fault", -1)>>,
                <<Psu("psu1", "ok", -2)>>}, "name")
    \cup {PyDict(<<<<"psu1", PyBool(FALSE)>>>>)}

ResourceShapes ==
    {PyDict(<<>>), Utilization(5, 20), Record(<<<<"cpu", PyInt(5)>>>>),
     PyList(<<Module("1/1", 5, 20)>>),
     PyList(<<Module("1/1", 5, 20), Module("1/2", 7, 30)>>)}

SensorShapes ==
    BothShapes({<<>>, <<Sensor("inlet", 25000, "normal")>>,
                <<Sensor("inlet", 61500, "critical"),
                  Sensor("cpu", 90000, "emergency")>>}, "location")
    \cup {PyNone}

Subsystem(fans, power_supplies, resource_utilization) ==
    [fans |-> fans, power_supplies |-> power_supplies,
     resource_utilization |-> resource_utilization]

\* the management module has any of the shapes; the chassis has every category
\* empty or every category populated
Chassis ==
    {Subsystem(PyList(<<>>), PyList(<<>>), PyDict(<<>>)),
     Subsystem(PyList(<<Fan("fan9", "ok")>>),
               PyList(<<Psu("psu9", "ok", 700)>>), Utilization(9, 90))}
\* a device has both subsystems, or lacks one of the two
Subsystems ==
    {(SubsystemKeys[1] :> Subsystem(f, p, r)) @@ (SubsystemKeys[2] :> c) :
        f \in FanShapes, p \in PsuShapes, r \in ResourceShapes, c \in Chassis}
    \cup {(SubsystemKeys[2] :> c) : c \in Chassis}
    \cup {(SubsystemKeys[1] :> c) : c \in Chassis}

TempSubsystem(sensors) == Record(<<<<"temp_sensors", sensors>>>>)
TempResponses ==
    {PyDict(<<>>)}
    \cup {PyDict(<<<<"subsystems", PyList(<<TempSubsystem(s)>>)>>>>) :
             s \in SensorShapes}
    \cup {PyDict(<<<<"subsystems",
                     PyList(<<TempSubsystem(PyList(<<Sensor("inlet", 25000, "normal")>>)),
                              Record(<<>>),
                              TempSubsystem(PyList(<<Sensor("cpu", 30500, "normal")>>))>>)>>>>)}

\* -------------------------------------------------------------- get_facts
\* The loop of lines 153-158: product_info is that of the first subsystem whose
\* serial number is non-empty, and stays {} when there is none.
RECURSIVE ProductInfoFrom(_, _)
ProductInfoFrom(i, subs) ==
    IF i > Len(SubsystemKeys) THEN Ok(PyDict(<<>>))
    ELSE IF SubsystemKeys[i] \notin DOMAIN subs
    THEN ErrNamed("KeyError", SubsystemKeys[i])
    ELSE IF ~In(subs[SubsystemKeys[i]].product_info, "serial_number")
    THEN ErrNamed("KeyError", "serial_number")
    ELSE IF Len(StrOf(Item(subs[SubsystemKeys[i]].product_info,
                           "serial_number"))) > 0
    THEN Ok(subs[SubsystemKeys[i]].product_info)
    ELSE ProductInfoFrom(i + 1, subs)

\* hostname and fqdn, lines 160-173
Hostname(mgmt_intf_status) ==
    Get(mgmt_intf_status, "hostname", PyStr(<<"A", "r", "u", "b", "a", "C", "X">>))
Fqdn(mgmt_intf_status) ==
    LET domain_name == Get(mgmt_intf_status, "domain_name", PyStr(<<>>))
    IN  IF domain_name # PyNone /\ Len(StrOf(domain_name)) > 0
        THEN PyStr(StrOf(Hostname(mgmt_intf_status)) \o <<".">>
                   \o StrOf(domain_name))
        ELSE Hostname(mgmt_intf_status)

\* get_facts at clock reading now (whole seconds)
get_facts(now, v) ==
    LET found == ProductInfoFrom(1, subsystems)
        product_info == found[2]
        lacking == {k \in {"serial_number", "product_name"} :
                       ~In(product_info, k)}
    IN  /\ last' =
             IF v # "ok" THEN Raised("get_facts", v, v)
             ELSE IF ~IsOk(found)
             THEN WithMessage(Raised("get_facts", v, found[2]), found[3])
             ELSE IF lacking # {}
             THEN WithMessage(Raised("get_facts", v, "KeyError"),
                              IF "serial_number" \in lacking
                              THEN "serial_number" ELSE "product_name")
             ELSE Returned("get_facts", v,
                    [uptime |-> PyInt(now - switch.boot_time),
                     vendor |-> PyStr("Aruba"),
                     os_version |-> switch.software_info.build_id,
                     serial_number |-> Item(product_info, "serial_number"),
                     model |-> Item(product_info, "product_name"),
                     hostname |-> Hostname(switch.mgmt_intf_status),
                     fqdn |-> Fqdn(switch.mgmt_intf_status),
                     interface_list |-> [i \in 1..Len(interface_list) |->
                                            interface_list[i][1]]])
        /\ UNCHANGED <<driver, device, transport>>

\* ---- the snapshots get_facts is run on
ProductInfo(serial_number, product_name) ==
    Record(<<<<"serial_number", PyStr(serial_number)>>,
             <<"product_name", PyStr(product_name)>>>>)
ProductInfos(serial_number, product_name) ==
    {ProductInfo(<<>>, <<>>), ProductInfo(serial_number, product_name),
     Record(<<<<"serial_number", PyStr(serial_number)>>>>)}
FactsSubsystems ==
    LET management == {[product_info |-> i] :
                          i \in ProductInfos(<<"S", "G", "1">>, <<"6", "4", "0", "0">>)}
        chassis == {[product_info |-> i] :
                       i \in ProductInfos(<<"S", "G", "2">>, <<"6", "3", "0", "0">>)}
    IN  {(SubsystemKeys[1] :> m) @@ (SubsystemKeys[2] :> c) :
            m \in management, c \in chassis}
        \cup {(SubsystemKeys[1] :> m) : m \in management}
        \cup {(SubsystemKeys[2] :> c) : c \in chassis}
MgmtIntfStatuses ==
    {h @@ d : h \in Opt("hostname", {PyStr(<<"s", "w">>)}),
              d \in Opt("domain_name", {PyNone, PyStr(<<>>), PyStr(<<"l", "a", "b">>)})}
BootTimes == {40, 100}
Clock == 100..101
Switches ==
    [boot_time : BootTimes, mgmt_intf_status : MgmtIntfStatuses,
     software_info : {[build_id |-> PyStr("FL.10.09")]}]

\* ------------------------------------------------------ get_interfaces_ip
\* An address is a sequence of characters.
DigitChars == <<"0", "1", "2", "3", "4", "5", "6", "7", "8", "9">>
IsDigits(s) ==
    s # <<>> /\ \A i \in 1..Len(s) : \E d \in 1..Len(DigitChars) : DigitChars[d] = s[i]
\* int(s) of a string of decimal digits
RECURSIVE IntOfChars(_)
IntOfChars(s) ==
    IF s = <<>> THEN 0
    ELSE 10 * IntOfChars(SubSeq(s, 1, Len(s) - 1))
         + (CHOOSE d \in 0..9 : DigitChars[d + 1] = s[Len(s)])
\* s.rfind(ch): the 0-based index of the last ch, -1 when there is none
RFind(s, ch) ==
    LET at == {i \in 1..Len(s) : s[i] = ch}
    IN  IF at = {} THEN -1 ELSE (CHOOSE i \in at : \A j \in at : j <= i) - 1
\* s[:n] with n as Python reads it: a negative n counts from the end
SliceTo(s, n) == SubSeq(s, 1, IF n < 0 THEN Len(s) + n ELSE n)
\* <<address[:address.rfind('/')], {'prefix_length': int(address[rfind + 1:])}>>;
\* int raises ValueError for what is not a number
SplitCidr(address) ==
    LET r == RFind(address, "/")
        rest == SubSeq(address, r + 2, Len(address))
    IN  IF IsDigits(rest)
        THEN Ok(<<SliceTo(address, r), [prefix_length |-> PyInt(IntOfChars(rest))]>>)
        ELSE Err("ValueError")

\* ip4_address of one interface, lines 559-565
Ip4Address(details) ==
    IF Has(details, "ip4_address") /\ details["ip4_address"] # PyNone
       /\ Len(StrOf(details["ip4_address"])) > 0
    THEN <<SplitCidr(StrOf(details["ip4_address"]))>>
    ELSE <<>>
\* the same addresses with the listed ones ahead of the link-local ones
Ip6AddressLocalLast(details, info) ==
    LET local == IF Has(details, "ip6_address_link_local")
                 THEN [i \in 1..Len(details["ip6_address_link_local"]) |->
                          SplitCidr(details["ip6_address_link_local"][i][1])]
                 ELSE <<>>
        listed == IF Has(info, "ip6_addresses")
                  THEN [i \in 1..Len(info["ip6_addresses"]) |->
                           SplitCidr(info["ip6_addresses"][i])]
                  ELSE <<>>
    IN  listed \o local

\* ip6_address of one interface, lines 567-582: the keys of the link-local
\* mapping, then the addresses of the interface object when it has them
Ip6Address(details, info) ==
    LET local == IF Has(details, "ip6_address_link_local")
                 THEN [i \in 1..Len(details["ip6_address_link_local"]) |->
                          SplitCidr(details["ip6_address_link_local"][i][1])]
                 ELSE <<>>
        listed == IF Has(info, "ip6_addresses")
                  THEN [i \in 1..Len(info["ip6_addresses"]) |->
                           SplitCidr(info["ip6_addresses"][i])]
                  ELSE <<>>
    IN  local \o listed
\* interface_ip_list of one interface, or the error its addresses raise
InterfaceIpList(details, info) ==
    LET ip4 == Ip4Address(details)
        ip6 == Ip6Address(details, info)
        splits == ip4 \o ip6
        pairs(rs) == [i \in 1..Len(rs) |-> rs[i][2]]
    IN  IF \E i \in 1..Len(splits) : ~IsOk(splits[i]) THEN Err("ValueError")
        ELSE Ok((IF ip4 # <<>> THEN "ipv4" :> DictOf(pairs(ip4)) ELSE EmptyDict)
                @@ (IF ip6 # <<>> THEN "ipv6" :> DictOf(pairs(ip6)) ELSE EmptyDict))

get_interfaces_ip(v) ==
    LET lists == [i \in 1..Len(interface_list) |->
                     InterfaceIpList(interface_list[i][2],
                                     interface_info[interface_list[i][1]])]
        kept == SelectSeq([i \in 1..Len(lists) |-> <<interface_list[i][1], lists[i]>>],
                          LAMBDA p : IsOk(p[2]) /\ DOMAIN p[2][2] # {})
    IN  /\ last' =
             IF v # "ok" THEN Raised("get_interfaces_ip", v, v)
             ELSE IF \E i \in 1..Len(lists) : ~IsOk(lists[i])
             THEN Raised("get_interfaces_ip", v, "ValueError")
             ELSE Returned("get_interfaces_ip", v,
                    DictOf([i \in 1..Len(kept) |-> <<kept[i][1], kept[i][2][2]>>]))
        /\ UNCHANGED <<driver, device, transport>>

\* ---- the snapshots get_interfaces_ip is run on
Ip4Cidr == <<"1", "0", ".", "0", ".", "0", ".", "1", "/", "2", "4">>
LinkLocalCidr == <<"f", "e", "8", "0", ":", ":", "1", "/", "6", "4">>
LinkLocalCidr2 == <<"f", "e", "8", "0", ":", ":", "2", "/", "6", "4">>
\* the link-local address again, as the interface object lists it
ListedLinkLocal == <<"f", "e", "8", "0", ":", ":", "1", "/", "1", "2", "8">>
GlobalCidr == <<"2", "0", "0", "1", ":", ":", "1", "/", "4", "8">>
IpDetails ==
    {a @@ b :
        a \in Opt("ip4_address", {PyNone, PyStr(<<>>), PyStr(Ip4Cidr)}),
        b \in Opt("ip6_address_link_local",
                  {<<>>, <<<<LinkLocalCidr, PyNone>>>>,
                   <<<<LinkLocalCidr, PyNone>>, <<LinkLocalCidr2, PyNone>>>>})}
InterfaceInfos ==
    Opt("ip6_addresses",
        {<<>>, <<GlobalCidr>>, <<ListedLinkLocal>>, <<GlobalCidr, ListedLinkLocal>>})

\* -------------------------------------------------------------- get_vlans
\* '/' in key
IsPhysical(name) == \E i \in 1..Len(name) : name[i] = "/"
\* lines 1023 and 1025: the key is there and what it holds is true, non-empty
Usable(interface_facts, key) ==
    /\ Has(interface_facts, key)
    /\ interface_facts[key] # PyNone
    /\ PyLen(interface_facts[key]) > 0

\* a membership source that prefers applied_vlan_tag
VlanIdsTagFirst(interface_facts) ==
    LET key == IF Usable(interface_facts, "applied_vlan_tag")
               THEN "applied_vlan_tag"
               ELSE IF Usable(interface_facts, "applied_vlan_trunks")
               THEN "applied_vlan_trunks"
               ELSE ""
    IN  IF key = "" THEN <<>>
        ELSE [i \in 1..PyLen(interface_facts[key]) |->
                 IntOfChars(interface_facts[key][2][i][1])]

\* The membership source of an interface, lines 1021-1028: the keys of
\* applied_vlan_trunks when it is there, true and non-empty, otherwise those of
\* applied_vlan_tag under the same conditions, otherwise nothing.
VlanIds(interface_facts) ==
    LET key == IF Usable(interface_facts, "applied_vlan_trunks")
               THEN "applied_vlan_trunks"
               ELSE IF Usable(interface_facts, "applied_vlan_tag")
               THEN "applied_vlan_tag"
               ELSE ""
    IN  IF key = "" THEN <<>>
        ELSE [i \in 1..PyLen(interface_facts[key]) |->
                 IntOfChars(interface_facts[key][2][i][1])]
InSeq(s, x) == \E i \in 1..Len(s) : s[i] = x

get_vlans(v) ==
    LET ids == [i \in 1..Len(vlan_list) |-> IntOfChars(vlan_list[i][1])]
        physical == SelectSeq(interface_list, LAMBDA p : IsPhysical(p[1]))
        members(id) ==
            LET of_vlan == SelectSeq(physical, LAMBDA p : InSeq(VlanIds(p[2]), id))
            IN  [i \in 1..Len(of_vlan) |-> of_vlan[i][1]]
    IN  /\ last' =
             IF v # "ok" THEN Raised("get_vlans", v, v)
             ELSE IF \E i \in 1..Len(physical) :
                        \E j \in 1..Len(VlanIds(physical[i][2])) :
                            ~InSeq(ids, VlanIds(physical[i][2])[j])
             THEN Raised("get_vlans", v, "KeyError")
             ELSE Returned("get_vlans", v,
                    DictOf([i \in 1..Len(vlan_list) |->
                       <<ids[i], [name |-> vlan_list[i][2].name,
                                  interfaces |-> members(ids[i])]>>]))
        /\ UNCHANGED <<driver, device, transport>>

\* ---- the snapshots get_vlans is run on
VlanId10 == <<"1", "0">>
VlanId20 == <<"2", "0">>
VlanId30 == <<"3", "0">>
VlanLists ==
    LET default == <<VlanId10, [name |-> PyStr("default")]>>
        data == <<VlanId20, [name |-> PyStr("data")]>>
    IN  {<<>>, <<default>>, <<default, data>>, <<data, default>>}
VlanMap(ids) == PyDict([i \in 1..Len(ids) |-> <<ids[i], PyNone>>])
VlanFacts ==
    {EmptyDict,
     "applied_vlan_trunks" :> VlanMap(<<VlanId10, VlanId20>>),
     ("applied_vlan_trunks" :> VlanMap(<<>>))
        @@ ("applied_vlan_tag" :> VlanMap(<<VlanId10>>)),
     "applied_vlan_tag" :> VlanMap(<<VlanId20>>),
     ("applied_vlan_trunks" :> VlanMap(<<VlanId10>>))
        @@ ("applied_vlan_tag" :> VlanMap(<<VlanId20>>)),
     ("applied_vlan_trunks" :> PyNone)
        @@ ("applied_vlan_tag" :> VlanMap(<<VlanId10>>)),
     "applied_vlan_trunks" :> VlanMap(<<VlanId30>>)}
VlanIntfNames ==
    {<<"1", "/", "1", "/", "1">>, <<"1", "/", "1", "/", "2">>,
     <<"l", "a", "g", "1">>}

\* -------------------------------------------------- get_mac_address_table
\* s.split(sep): the parts of s between the separators
RECURSIVE Split(_, _)
Split(s, sep) ==
    LET at == {i \in 1..Len(s) : s[i] = sep}
        first == CHOOSE i \in at : \A j \in at : i <= j
    IN  IF at = {} THEN <<s>>
        ELSE <<SubSeq(s, 1, first - 1)>> \o Split(SubSeq(s, first + 1, Len(s)), sep)

\* a record that reports every entry as static, whatever its key says
MacEntryStaticAlways(mac) ==
    LET mac_key == mac[1][1]
        mac_attributes == Split(mac_key, ",")
        mac_obj == mac[1][2]
    IN  IF Len(mac_attributes) < 2 \/ mac_obj.port = <<>> THEN Err("IndexError")
        ELSE Ok([mac |-> PyStr(mac_attributes[2]),
                 interface |-> PyStr(mac_obj.port[1][1]),
                 vlan |-> PyInt(IntOfChars(mac_obj.parent_vlan_id)),
                 static |-> PyBool(TRUE),
                 active |-> PyBool(TRUE),
                 moves |-> PyNone,
                 last_move |-> PyNone])

\* the record of one non-empty MAC collection, lines 619-640: made from its
\* first key and the object under it
MacEntry(mac) ==
    LET mac_key == mac[1][1]
        mac_attributes == Split(mac_key, ",")
        mac_obj == mac[1][2]
    IN  IF Len(mac_attributes) < 2 \/ mac_obj.port = <<>> THEN Err("IndexError")
        ELSE Ok([mac |-> PyStr(mac_attributes[2]),
                 interface |-> PyStr(mac_obj.port[1][1]),
                 vlan |-> PyInt(IntOfChars(mac_obj.parent_vlan_id)),
                 static |-> PyBool(mac_attributes[1] = <<"s", "t", "a", "t", "i", "c">>),
                 active |-> PyBool(TRUE),
                 moves |-> PyNone,
                 last_move |-> PyNone])

get_mac_address_table(v) ==
    LET fetched == [i \in 1..Len(vlan_list) |-> mac_table[vlan_list[i][1]]]
        mac_list == SelectSeq(fetched, LAMBDA mac_entry : Len(mac_entry) > 0)
        entries == [i \in 1..Len(mac_list) |-> MacEntry(mac_list[i])]
    IN  /\ last' =
             IF v # "ok" THEN Raised("get_mac_address_table", v, v)
             ELSE IF \E i \in 1..Len(entries) : ~IsOk(entries[i])
             THEN Raised("get_mac_address_table", v, "IndexError")
             ELSE Returned("get_mac_address_table", v,
                           [i \in 1..Len(entries) |-> entries[i][2]])
        /\ UNCHANGED <<driver, device, transport>>

\* ---- the snapshots get_mac_address_table is run on
MacKey(type, address) == type \o <<",">> \o address
StaticMac ==
    <<MacKey(<<"s", "t", "a", "t", "i", "c">>,
             <<"a", "a", ":", "b", "b", ":", "c", "c", ":", "d", "d", ":", "e", "e", ":", "f", "f">>),
      <<"1", "/", "1", "/", "1">>>>
DynamicMac ==
    <<MacKey(<<"d", "y", "n", "a", "m", "i", "c">>,
             <<"0", "0", ":", "1", "1", ":", "2", "2", ":", "3", "3", ":", "4", "4", ":", "5", "5">>),
      <<"1", "/", "1", "/", "2">>>>
\* the MAC collection of a VLAN: its keys and, under each, the Mac object
MacDict(vlan_id, macs) ==
    [i \in 1..Len(macs) |->
        <<macs[i][1], [parent_vlan_id |-> vlan_id,
                       port |-> <<<<macs[i][2], PyNone>>>>]>>]
MacTables ==
    LET macs == {<<>>, <<StaticMac>>, <<DynamicMac>>, <<StaticMac, DynamicMac>>,
                 <<DynamicMac, StaticMac>>}
    IN  {(VlanId10 :> MacDict(VlanId10, a)) @@ (VlanId20 :> MacDict(VlanId20, b)) :
            a \in macs, b \in macs}

\* ------------------------------------------------------------- get_config
\* What the transport may do with one GET: answer (OK or not, with a status
\* code and a body), or raise.
Response(status_code, text) == [status_code |-> status_code, text |-> text]
\* requests' Response.ok: the status code is below 400
ResponseOk(resp) == resp.status_code < 400
TransportError == [status_code |-> 0, text |-> "ConnectionError"]
Responses(config) ==
    {Response(200, config), Response(401, "Unauthorized"),
     Response(500, "Internal Server Error"), TransportError}

\* a fetch that goes on with an empty text when the reply is not OK
FetchEmptyOnError(what, resp) ==
    IF resp = TransportError THEN Err("ConnectionError")
    ELSE IF ~ResponseOk(resp) THEN Ok("")
    ELSE Ok(resp.text)

\* a fetch that takes the body of any reply as the text
FetchIgnoringStatus(what, resp) ==
    IF resp = TransportError THEN Err("ConnectionError")
    ELSE Ok(resp.text)

\* one fetch of get_config, lines 709-715 and 718-724: the text, or the error
Fetch(what, resp) ==
    IF resp = TransportError THEN Err("ConnectionError")
    ELSE IF ~ResponseOk(resp)
    THEN ErrNamed("MergeConfigException",
                  <<what, "fetch failed:", resp.status_code, resp.text>>)
    ELSE Ok(resp.text)

\* get_config(retrieve); full and sanitized are not read.  running_resp and
\* startup_resp are what the transport does with the request if it is issued.
get_config(retrieve, running_resp, startup_resp) ==
    LET wants_running == retrieve \in {"running", "all"}
        wants_startup == retrieve \in {"startup", "all"}
        running == IF wants_running THEN Fetch("Running-config", running_resp)
                   ELSE Ok("")
        startup == IF wants_startup THEN Fetch("Startup-config", startup_resp)
                   ELSE Ok("")
        raise(r) == IF Len(r) = 3
                    THEN WithMessage(Raised("get_config", "HttpNotOk", r[2]), r[3])
                    ELSE Raised("get_config", r[2], r[2])
        get_running == <<[url |-> "configs/running-config", resp |-> running_resp]>>
        get_startup == <<[url |-> "configs/startup-config", resp |-> startup_resp]>>
        call ==
            IF retrieve \notin {"running", "startup", "candidate", "all"}
            THEN <<Raised("get_config", "ok", "ValueError"), <<>>>>
            ELSE IF session = 0 /\ (wants_running \/ wants_startup)
            THEN <<Raised("get_config", "ok", "AttributeError"), <<>>>>
            ELSE IF ~IsOk(running)
            THEN <<raise(running), get_running>>
            ELSE IF ~IsOk(startup)
            THEN <<raise(startup),
                   (IF wants_running THEN get_running ELSE <<>>) \o get_startup>>
            ELSE <<Returned("get_config", "ok",
                            [running |-> PyStr(running[2]),
                             startup |-> PyStr(startup[2]),
                             candidate |-> PyStr("")]),
                   (IF wants_running THEN get_running ELSE <<>>)
                   \o (IF wants_startup THEN get_startup ELSE <<>>)>>
    IN  /\ last' = WithArgs(call[1], [retrieve |-> retrieve])
        /\ requests' = call[2]
        /\ UNCHANGED <<driver, device, configs>>

\* ---- the configurations the device may hold
ConfigTexts == {"", "hostname sw1", "hostname sw1\nvlan 10"}
Configs == [running : ConfigTexts, startup : ConfigTexts]
Retrieves == {"running", "startup", "candidate", "all", "everything"}

\* ---------------------------------------------------------- specification
NoConfigs == [running |-> "", startup |-> ""]

NoEnvironment ==
    /\ subsystems = <<>>
    /\ temp_response = <<>>
    /\ switch = <<>>
    /\ interface_info = <<>>
    /\ vlan_list = <<>>
    /\ mac_table = <<>>
    /\ configs = NoConfigs

NoDevice ==
    /\ interface_list = <<>>
    /\ raw_lldp = <<>>
    /\ has_django = FALSE
    /\ NoEnvironment

Init == InitDriver /\ NoDevice

Next ==
    \/ \E v \in OpenOutcomes : open(v)
    \/ \E v \in LogoutOutcomes : close(v)
    \/ is_alive

Spec == Init /\ [][Next]_vars

\* get_interfaces on every snapshot of interface facts
InitInterfaces ==
    /\ OpenedDriver
    /\ NoEnvironment
    /\ raw_lldp = <<>>
    /\ has_django = FALSE
    /\ interface_list \in OrderedDicts(IntfNames, InterfaceDetails)

NextInterfaces == \E v \in VendorOutcomes : get_interfaces(v)

SpecInterfaces == InitInterfaces /\ [][NextInterfaces]_vars

\* get_interfaces_counters on every snapshot of interface statistics
InitCounters ==
    /\ OpenedDriver
    /\ NoEnvironment
    /\ raw_lldp = <<>>
    /\ has_django = FALSE
    /\ interface_list \in OrderedDicts(IntfNames, CounterDetails)

NextCounters == \E v \in VendorOutcomes : get_interfaces_counters(v)

SpecCounters == InitCounters /\ [][NextCounters]_vars

\* get_lldp_neighbors_detail on every LLDP snapshot, for the whole table, for a
\* port of the snapshot and for a port that may not be in it
InitLldp ==
    /\ OpenedDriver
    /\ NoEnvironment
    /\ interface_list = <<>>
    /\ raw_lldp \in LldpSnapshots
    /\ has_django \in BOOLEAN

NextLldp ==
    \E interface \in {<<>>, <<"1", "/", "1", "/", "1">>}
                     \cup {unquote(raw_lldp[i][1]) : i \in 1..Len(raw_lldp)},
       v \in VendorOutcomes :
        \/ get_lldp_neighbors_detail(interface, v)
        \/ get_lldp_neighbors(v)

SpecLldp == InitLldp /\ [][NextLldp]_vars

\* get_environment on every snapshot of the subsystems and of the temperature
\* reply
InitEnvironment ==
    /\ OpenedDriver
    /\ interface_list = <<>>
    /\ raw_lldp = <<>>
    /\ has_django = FALSE
    /\ subsystems \in Subsystems
    /\ temp_response \in TempResponses
    /\ switch = <<>>
    /\ interface_info = <<>>
    /\ vlan_list = <<>>
    /\ mac_table = <<>>
    /\ configs = NoConfigs

NextEnvironment == \E v \in EnvironmentOutcomes : get_environment(v)

SpecEnvironment == InitEnvironment /\ [][NextEnvironment]_vars

\* get_facts on every snapshot of the product information
InitFacts ==
    /\ OpenedDriver
    /\ raw_lldp = <<>>
    /\ has_django = FALSE
    /\ temp_response = <<>>
    /\ interface_list \in {<<>>, <<<<"1/1/1", PyNone>>, <<"vlan10", PyNone>>>>}
    /\ subsystems \in FactsSubsystems
    /\ switch \in Switches
    /\ interface_info = <<>>
    /\ vlan_list = <<>>
    /\ mac_table = <<>>
    /\ configs = NoConfigs

NextFacts == \E now \in Clock, v \in VendorOutcomes : get_facts(now, v)

SpecFacts == InitFacts /\ [][NextFacts]_vars

\* get_interfaces_ip on every snapshot of the addresses
InitInterfacesIp ==
    /\ OpenedDriver
    /\ raw_lldp = <<>>
    /\ has_django = FALSE
    /\ subsystems = <<>>
    /\ temp_response = <<>>
    /\ switch = <<>>
    /\ interface_list \in OrderedDicts(IntfNames, IpDetails)
    /\ interface_info \in [IntfNames -> InterfaceInfos]
    /\ vlan_list = <<>>
    /\ mac_table = <<>>
    /\ configs = NoConfigs

NextInterfacesIp == \E v \in VendorOutcomes : get_interfaces_ip(v)

SpecInterfacesIp == InitInterfacesIp /\ [][NextInterfacesIp]_vars

\* get_vlans on every snapshot of VLANs and interface memberships
InitVlans ==
    /\ OpenedDriver
    /\ raw_lldp = <<>>
    /\ has_django = FALSE
    /\ subsystems = <<>>
    /\ temp_response = <<>>
    /\ switch = <<>>
    /\ interface_info = <<>>
    /\ vlan_list \in VlanLists
    /\ interface_list \in OrderedDicts(VlanIntfNames, VlanFacts)
    /\ mac_table = <<>>
    /\ configs = NoConfigs

NextVlans == \E v \in VendorOutcomes : get_vlans(v)

SpecVlans == InitVlans /\ [][NextVlans]_vars

\* get_mac_address_table on every snapshot of the VLANs' MAC collections
InitMacTable ==
    /\ OpenedDriver
    /\ raw_lldp = <<>>
    /\ has_django = FALSE
    /\ subsystems = <<>>
    /\ temp_response = <<>>
    /\ switch = <<>>
    /\ interface_info = <<>>
    /\ interface_list = <<>>
    /\ vlan_list \in VlanLists
    /\ mac_table \in MacTables
    /\ configs = NoConfigs

NextMacTable == \E v \in VendorOutcomes : get_mac_address_table(v)

SpecMacTable == InitMacTable /\ [][NextMacTable]_vars

\* get_config of every kind, on every pair of configurations, with the
\* transport answering or failing each request
InitConfig ==
    /\ OpenedDriver
    /\ raw_lldp = <<>>
    /\ has_django = FALSE
    /\ interface_list = <<>>
    /\ subsystems = <<>>
    /\ temp_response = <<>>
    /\ switch = <<>>
    /\ interface_info = <<>>
    /\ vlan_list = <<>>
    /\ mac_table = <<>>
    /\ configs \in Configs

NextConfig ==
    \E retrieve \in Retrieves, running_resp \in Responses(configs.running),
       startup_resp \in Responses(configs.startup) :
        get_config(retrieve, running_resp, startup_resp)

SpecConfig == InitConfig /\ [][NextConfig]_vars

\* The whole driver against one device: open, close and is_alive interleaved
\* with every fact operation and get_config.  Interface.get_facts gives every
\* operation the same facts, so an interface carries the fields of all of them;
\* lag1 has no statistics and no hardware information.
DeviceInterfaces ==
    LET port == ("description" :> PyNone) @@ ("mtu" :> PyInt(1500))
                @@ ("hw_intf_info" :> ("max_speed" :> PyInt(1000)))
                @@ ("link_state" :> PyStr("up")) @@ ("admin_state" :> PyStr("up"))
                @@ ("statistics" :>
                       (CHOOSE st \in Statistics :
                           Cardinality(DOMAIN st) = Len(StatisticNames)))
                @@ ("ip4_address" :> PyStr(Ip4Cidr))
                @@ ("ip6_address_link_local" :> <<<<LinkLocalCidr, PyNone>>>>)
                @@ ("applied_vlan_trunks" :> VlanMap(<<VlanId10>>))
        lag == ("admin_state" :> PyStr("up")) @@ ("ip4_address" :> PyNone)
               @@ ("applied_vlan_tag" :> VlanMap(<<VlanId10>>))
    IN  <<<<(<<"1", "/", "1", "/", "1">>), port>>, <<(<<"l", "a", "g", "1">>), lag>>>>

DeviceSubsystem ==
    [product_info |-> ProductInfo(<<"S", "G", "1">>, <<"6", "4", "0", "0">>)]
    @@ Subsystem(PyList(<<Fan("fan1", "ok")>>), PyList(<<Psu("psu1", "ok", 350)>>),
                 Utilization(5, 20))

InitSession ==
    /\ InitDriver
    /\ interface_list = DeviceInterfaces
    /\ interface_info = [name \in Keys(interface_list) |->
                            "ip6_addresses" :> <<GlobalCidr>>]
    /\ raw_lldp = <<<<(<<"1", "/", "1", "/", "1">>),
                      <<<<"00:01,1/1/2",
                          [chassis_id |-> "00:01", port_id |-> "1/1/2",
                           neighbor_info |-> NeighborInfo]>>>>>>>>
    /\ has_django = FALSE
    /\ subsystems = (SubsystemKeys[1] :> DeviceSubsystem)
                     @@ (SubsystemKeys[2] :> DeviceSubsystem)
    /\ temp_response =
          PyDict(<<<<"subsystems",
                     PyList(<<TempSubsystem(
                                PyList(<<Sensor("inlet", 25000, "normal")>>))>>)>>>>)
    /\ switch \in {sw \in Switches : sw.boot_time = 40
                                       /\ DOMAIN sw.mgmt_intf_status = {"hostname"}}
    /\ vlan_list = <<<<VlanId10, [name |-> PyStr("default")]>>>>
    /\ mac_table = (VlanId10 :> MacDict(VlanId10, <<StaticMac>>))
    /\ configs = [running |-> "hostname sw1", startup |-> ""]

\* what the vendor client can do with the session it is handed: without a
\* session object it can only raise
Answers == IF session = 0 THEN {"VendorError"} ELSE VendorOutcomes

NextSession ==
    \/ \E v \in OpenOutcomes : open(v)
    \/ \E v \in LogoutOutcomes : close(v)
    \/ is_alive
    \/ \E v \in Answers : get_facts(100, v)
    \/ \E v \in Answers : get_interfaces(v)
    \/ \E v \in Answers : get_interfaces_counters(v)
    \/ \E v \in Answers : get_lldp_neighbors(v)
    \/ \E interface \in {<<>>, <<"1", "/", "1", "/", "1">>}, v \in Answers :
          get_lldp_neighbors_detail(interface, v)
    \/ \E v \in EnvironmentOutcomes : get_environment(v)
    \/ \E v \in Answers : get_interfaces_ip(v)
    \/ \E v \in Answers : get_vlans(v)
    \/ \E v \in Answers : get_mac_address_table(v)
    \/ \E retrieve \in {"all", "everything"},
          running_resp \in {Response(200, configs.running), Response(401, "Unauthorized")},
          startup_resp \in {Response(200, configs.startup), TransportError} :
          get_config(retrieve, running_resp, startup_resp)

SpecSession == InitSession /\ [][NextSession]_vars

\* ------------------------------------------------------------------ claims

\* C1: is_alive reports the flag, and the flag is true exactly when the session
\* handle the driver currently holds was opened successfully and has not been
\* closed.
C1_AliveIffHeldSessionOpen ==
    /\ isAlive <=> (session # 0 /\ session \in logged_in)
    /\ (last.op = "is_alive" => last.value = PyBool(isAlive))

\* C2: at most one session opened by this driver and not yet logged out exists.
C2_AtMostOneOpenSession == Cardinality(logged_in) <= 1

\* C3: an open that fails with the vendor's connection error raises
\* ConnectionException and leaves the liveness flag as it was (so a driver that
\* was not alive is still not alive).
C3_FailedOpenRaisesConnectionException ==
    [][(last'.op = "open" /\ last'.vendor = "ConnectionError")
         => (last'.raised = "ConnectionException" /\ isAlive' = isAlive)]_vars

C3_Witness ==
    /\ last.op = "open"
    /\ last.vendor = "ConnectionError"
    /\ last.raised = "ConnectionException"
    /\ ~isAlive

\* the facts of the named interface
FactsOf(facts, name) ==
    facts[CHOOSE i \in 1..Len(facts) : facts[i][1] = name][2]

\* the keys the docstring of get_interfaces lists (lines 196-201)
DocumentedInterfaceKeys ==
    {"is_up", "is_enabled", "description", "speed", "mtu", "mac_address"}

InterfaceStatesRight(keys) ==
    (last.op = "get_interfaces" /\ last.raised = "none") =>
        /\ DOMAIN last.value = Keys(interface_list)
        /\ \A name \in DOMAIN last.value :
              LET d == FactsOf(interface_list, name)
                  out == last.value[name]
              IN  /\ DOMAIN out = keys
                  /\ out.is_up = (d["link_state"] = PyStr("up"))
                  /\ out.is_enabled = (d["admin_state"] = PyStr("up"))

\* C4 as claimed: every interface of get_interfaces has exactly the six
\* documented keys; is_up iff link_state is "up", is_enabled iff admin_state
\* is "up".
C4_ExactlySixKeys == InterfaceStatesRight(DocumentedInterfaceKeys)

\* C4 as amended: every interface of get_interfaces has exactly seven keys, the
\* six documented ones and last_flapped; is_up iff link_state is "up",
\* is_enabled iff admin_state is "up".
C4_SevenKeysAndStates ==
    InterfaceStatesRight(DocumentedInterfaceKeys \cup {"last_flapped"})

C4_Witness ==
    /\ last.op = "get_interfaces"
    /\ last.raised = "none"
    /\ \E name \in DOMAIN last.value :
          /\ last.value[name].is_up
          /\ ~last.value[name].is_enabled
    /\ \E name \in DOMAIN last.value : ~last.value[name].is_up

TwelveCounters ==
    {"tx_errors", "rx_errors", "tx_discards", "rx_discards", "tx_octets",
     "rx_octets", "tx_unicast_packets", "rx_unicast_packets",
     "tx_multicast_packets", "rx_multicast_packets", "tx_broadcast_packets",
     "rx_broadcast_packets"}

\* C6: every interface of get_interfaces_counters has all twelve counters; a
\* counter whose statistic is absent is 0, one whose statistic is present is
\* the statistic's value; the discards are the dropped statistics.
C6_CountersDefaultZero ==
    (last.op = "get_interfaces_counters" /\ last.raised = "none") =>
        /\ DOMAIN last.value = Keys(interface_list)
        /\ \A name \in DOMAIN last.value :
              LET stats == FactsOf(interface_list, name)["statistics"]
                  out == last.value[name]
                  From(source) == IF Has(stats, source) THEN stats[source] ELSE 0
              IN  /\ DOMAIN out = TwelveCounters
                  /\ \A counter \in TwelveCounters :
                        out[counter] = From(CounterSource[counter])
                  /\ out.tx_discards = From("tx_dropped")
                  /\ out.rx_discards = From("rx_dropped")
                  /\ out.tx_errors = From("tx_errors")
                  /\ out.rx_octets = From("rx_bytes")

C6_Witness ==
    /\ last.op = "get_interfaces_counters"
    /\ last.raised = "none"
    /\ \E name \in DOMAIN last.value :
          /\ last.value[name].tx_discards > 0
          /\ last.value[name].rx_discards > 0
          /\ last.value[name].tx_errors = 0
    /\ \E name \in DOMAIN last.value :
          /\ last.value[name].tx_discards = 0
          /\ last.value[name].tx_errors > 0

\* the ports of the snapshot the last get_lldp_neighbors_detail had to process
LldpProcessed ==
    {i \in 1..Len(raw_lldp) :
        \/ last.args.interface = <<>>
        \/ last.args.interface = unquote(raw_lldp[i][1])}
LldpEntriesAt(i) == LldpEntries(unquote(raw_lldp[i][1]), raw_lldp[i][2])
LldpAliases(i) ==
    LET decoded == unquote(raw_lldp[i][1])
    IN  {decoded, slugify(decoded, has_django), DisplayName(decoded)}
LldpPublishedUnder(i, keys) ==
    \A k \in keys : Has(last.value, k) /\ last.value[k] = LldpEntriesAt(i)

\* C7: with an interface requested that is not among the decoded keys the
\* result is empty; with one that is, the result holds its entries under the
\* decoded name, the slug and the display name and nothing else; with none
\* requested, every raw key's entries are under its three variants.
C7_EntriesUnderThreeVariants ==
    (last.op = "get_lldp_neighbors_detail" /\ last.vendor = "ok") =>
        /\ last.raised = "none"
        /\ IF last.args.interface = <<>>
           THEN \A i \in LldpProcessed : LldpPublishedUnder(i, LldpAliases(i))
           ELSE IF LldpProcessed = {}
           THEN DOMAIN last.value = {}
           ELSE \E i \in LldpProcessed :
                   /\ LldpPublishedUnder(i, LldpAliases(i))
                   /\ DOMAIN last.value = LldpAliases(i)

\* C8 as claimed: every entry list is published under the raw key, the decoded
\* name, the slug and the display name of its port.
C8_FourAliases ==
    (last.op = "get_lldp_neighbors_detail" /\ last.vendor = "ok") =>
        \A i \in LldpProcessed :
            LldpPublishedUnder(i, LldpAliases(i) \cup {raw_lldp[i][1]})

\* C8 as amended: the result has exactly the decoded name, the slug and the
\* display name of every port processed (the raw key only where it is one of
\* these), and each of these keys holds the entries of the last port
\* processed that has it among its three.
C8_ThreeAliasesLastWins ==
    (last.op = "get_lldp_neighbors_detail" /\ last.vendor = "ok") =>
        /\ DOMAIN last.value = UNION {LldpAliases(i) : i \in LldpProcessed}
        /\ \A i \in LldpProcessed :
              LldpPublishedUnder(i,
                  {k \in LldpAliases(i) :
                      \A j \in LldpProcessed : j > i => k \notin LldpAliases(j)})

C8_Witness ==
    /\ last.op = "get_lldp_neighbors_detail"
    /\ last.vendor = "ok"
    /\ Cardinality(LldpProcessed) = 2
    /\ \A i \in LldpProcessed :
          /\ raw_lldp[i][1] # unquote(raw_lldp[i][1])
          /\ raw_lldp[i][1] \notin DOMAIN last.value
          /\ LldpEntriesAt(i) # <<>>
          /\ last.value[unquote(raw_lldp[i][1])] = LldpEntriesAt(i)
          /\ last.value[DisplayName(unquote(raw_lldp[i][1]))] = LldpEntriesAt(i)
    /\ \E i, j \in LldpProcessed :
          i < j /\ slugify(unquote(raw_lldp[i][1]), has_django)
                     = slugify(unquote(raw_lldp[j][1]), has_django)

\* C9: a failure of the vendor client or of the transport during
\* get_lldp_neighbors_detail or get_environment ends the call with an error
\* (the vendor client's error as it was raised), never with a result.
C9_VendorFailurePropagates ==
    (last.op \in {"get_lldp_neighbors_detail", "get_environment"}
     /\ last.vendor # "ok") =>
        /\ last.raised # "none"
        /\ (last.vendor = "VendorError" /\ session_info # 0
                => last.raised = "VendorError")

\* the same records in the other shape: the values of a mapping as a list, the
\* elements of a list as a mapping keyed by the given field
OtherShape(x, key) ==
    IF IsDict(x) THEN PyList([i \in 1..PyLen(x) |-> x[2][i][2]])
    ELSE AsMapping(x[2], key)
\* whether a category holds records that can be given in either shape
Reshapable(x, key) ==
    IF IsDict(x)
    THEN \A i \in 1..PyLen(x) :
            /\ IsDict(x[2][i][2])
            /\ In(x[2][i][2], key)
            /\ StrOf(Item(x[2][i][2], key)) = x[2][i][1]
    ELSE \A i \in 1..PyLen(x) : In(x[2][i], key)
\* the temperature reply with every subsystem's sensors in the other shape
OtherShapeReply(data) ==
    IF ~In(data, "subsystems") THEN data
    ELSE LET subs == Item(data, "subsystems")[2]
         IN  PyDict(<<<<"subsystems",
                PyList([i \in 1..Len(subs) |->
                    IF In(subs[i], "temp_sensors")
                       /\ Item(subs[i], "temp_sensors") # PyNone
                    THEN TempSubsystem(OtherShape(Item(subs[i], "temp_sensors"),
                                                  "location"))
                    ELSE subs[i]])>>>>)
\* one module's utilization as the list of that one module, and back
OtherShapeUtilization(x) ==
    IF IsDict(x) THEN PyList(<<Record(<<<<"name", PyStr("1/1")>>,
                                        <<"resource_utilization", x>>>>)>>)
    ELSE Item(x[2][1], "resource_utilization")

EnvironmentReturned ==
    last.op = "get_environment" /\ last.vendor = "ok" /\ last.raised = "none"
FansAgree ==
    LET fans == _get_fan_info(subsystems)[2]
    IN  Reshapable(fans, "name")
            => FanDict(OtherShape(fans, "name")) = Ok(last.value.fans)
TemperatureAgrees ==
    TempDict(_get_temperature(TRUE, OtherShapeReply(temp_response)))
        = Ok(last.value.temperature)
PowerAgrees ==
    LET power == _get_power_supplies(subsystems)[2]
    IN  Reshapable(power, "name")
            => PsuDict(OtherShape(power, "name")) = Ok(last.value.power)
ResourcesAgree ==
    LET resources == _get_resource_utilization(subsystems)[2]
    IN  (IsDict(resources) \/ PyLen(resources) = 1)
            => Resources(OtherShapeUtilization(resources))
                 = Ok([cpu |-> last.value.cpu, memory |-> last.value.memory])

\* C10: when get_environment returns, every category of its result is what
\* the same content given in the other shape (mapping for sequence of records,
\* sequence of records for mapping) is normalised to: same keys, same values.
C10_ShapesAgree ==
    EnvironmentReturned
        => FansAgree /\ TemperatureAgrees /\ PowerAgrees /\ ResourcesAgree

\* the parts of C10, one category each
C10_Fans == EnvironmentReturned => FansAgree
C10_Temperature == EnvironmentReturned => TemperatureAgrees
C10_Power == EnvironmentReturned => PowerAgrees
C10_Resources == EnvironmentReturned => ResourcesAgree

\* the sensors of the temperature reply that are given as lists
ListedSensors ==
    LET subs == GetItem(temp_response, "subsystems", PyList(<<>>))[2]
        listed(i) == In(subs[i], "temp_sensors")
                     /\ Item(subs[i], "temp_sensors") # PyNone
                     /\ IsList(Item(subs[i], "temp_sensors"))
    IN  UNION {{Item(subs[i], "temp_sensors")[2][j] :
                   j \in 1..PyLen(Item(subs[i], "temp_sensors"))} :
               i \in {k \in 1..Len(subs) : listed(k)}}

\* C11: every temperature entry get_environment returns is that of a sensor of
\* the reply: its temperature is the milli-degree reading divided by 1000
\* (reading thousandths of a degree), is_alert is true iff the status is
\* "critical", is_critical iff it is "emergency", and the two are never both
\* true; with an OK reply every listed sensor has its entry.
C11_TemperatureConversion ==
    EnvironmentReturned =>
        /\ \A loc \in DOMAIN last.value.temperature :
             LET entry == last.value.temperature[loc]
             IN  /\ \E s \in ListedSensors :
                       /\ Item(s, "location") = PyStr(loc)
                       /\ entry.temperature = <<"float", Item(s, "temperature")[2]>>
                       /\ entry.is_alert
                            = PyBool(Item(s, "status") = PyStr("critical"))
                       /\ entry.is_critical
                            = PyBool(Item(s, "status") = PyStr("emergency"))
                 /\ ~(entry.is_alert = PyBool(TRUE)
                      /\ entry.is_critical = PyBool(TRUE))
        /\ \A s \in ListedSensors :
              StrOf(Item(s, "location")) \in DOMAIN last.value.temperature

C11_Witness ==
    /\ EnvironmentReturned
    /\ DOMAIN last.value.temperature = {"inlet", "cpu"}
    /\ last.value.temperature["inlet"]
         = [temperature |-> PyFloat(61500), is_alert |-> PyBool(TRUE),
            is_critical |-> PyBool(FALSE)]
    /\ last.value.temperature["cpu"]
         = [temperature |-> PyFloat(90000), is_alert |-> PyBool(FALSE),
            is_critical |-> PyBool(TRUE)]

\* get_environment was called with the vendor client and the transport working
\* and nothing but the power supplies can have made it raise
PowerDecides ==
    /\ last.op = "get_environment" /\ last.vendor = "ok"
    /\ IsOk(_get_fan_info(subsystems))
    /\ IsOk(FanDict(_get_fan_info(subsystems)[2]))
    /\ IsOk(TempDict(_get_temperature(TRUE, temp_response)))
    /\ IsOk(_get_resource_utilization(subsystems))
    /\ IsOk(Resources(_get_resource_utilization(subsystems)[2]))
    /\ IsOk(_get_power_supplies(subsystems))
\* the power supplies used, as <<name, record>>, in either shape
PowerSupplies ==
    LET power == _get_power_supplies(subsystems)[2]
    IN  IF IsDict(power)
        THEN {power[2][i] : i \in {k \in 1..PyLen(power) : IsDict(power[2][k][2])}}
        ELSE {<<StrOf(Item(power[2][i], "name")), power[2][i]>> :
                 i \in 1..PyLen(power)}

\* C12: for every power supply, in either input shape, get_environment does
\* not raise, capacity is the maximum-power characteristic when present and 0
\* when it or the characteristics record is absent, and output is "N/A".
C12_CapacityDefaultsToZero ==
    PowerDecides =>
        /\ last.raised = "none"
        /\ \A psu \in PowerSupplies :
              /\ last.value.power[psu[1]].capacity =
                    IF HasMaximumPower(psu[2])
                    THEN <<"float", 1000 * Item(Item(psu[2], "characteristics"),
                                                "maximum_power")[2]>>
                    ELSE <<"float", 0>>
              /\ last.value.power[psu[1]].output = PyStr("N/A")

\* the candidate subsystems, in order, whose record is present and has the
\* category non-empty
Populated(category) ==
    {i \in 1..Len(SubsystemKeys) :
        /\ SubsystemKeys[i] \in DOMAIN subsystems
        /\ PyLen(subsystems[SubsystemKeys[i]][category]) > 0}
WithSerial ==
    {i \in 1..Len(SubsystemKeys) :
        /\ SubsystemKeys[i] \in DOMAIN subsystems
        /\ In(subsystems[SubsystemKeys[i]].product_info, "serial_number")
        /\ Item(subsystems[SubsystemKeys[i]].product_info, "serial_number")
             # PyStr(<<>>)}
First(candidates) == CHOOSE i \in candidates : \A j \in candidates : i <= j
FirstOf(category) == subsystems[SubsystemKeys[First(Populated(category))]][category]
\* the call ended because a candidate's record is not there
RaisedForAbsentRecord ==
    /\ last.raised = "KeyError"
    /\ \E i \in 1..Len(SubsystemKeys) : last.value = PyStr(SubsystemKeys[i])

\* C13: when at least one candidate has the relevant sub-field non-empty, the
\* data used is that of the first such candidate in the order management
\* module, chassis, whether or not the other candidate's record is present or
\* populated: get_facts reports that candidate's serial number and model, and
\* get_environment normalises that candidate's fans, power supplies and
\* resource utilization.
C13_FirstPopulatedCandidateUsed ==
    /\ (last.op = "get_facts" /\ last.vendor = "ok" /\ WithSerial # {}) =>
          LET info == subsystems[SubsystemKeys[First(WithSerial)]].product_info
          IN  /\ ~RaisedForAbsentRecord
              /\ last.raised = "none" =>
                    /\ last.value.serial_number = Item(info, "serial_number")
                    /\ last.value.model = Item(info, "product_name")
    /\ (last.op = "get_environment" /\ last.vendor = "ok"
        /\ Populated("fans") # {} /\ Populated("power_supplies") # {}
        /\ Populated("resource_utilization") # {}) =>
          /\ ~RaisedForAbsentRecord
          /\ last.raised = "none" =>
                /\ Ok(last.value.fans) = FanDict(FirstOf("fans"))
                /\ Ok(last.value.power) = PsuDict(FirstOf("power_supplies"))
                /\ Ok([cpu |-> last.value.cpu, memory |-> last.value.memory])
                     = Resources(FirstOf("resource_utilization"))

\* the categories of get_environment for which no candidate has data
MissingCategories ==
    {c \in {"fans", "power_supplies", "resource_utilization"} :
        Populated(c) = {}}

\* C14: when no candidate subsystem has non-empty data for a category, the
\* call does not return: it ends in an error that names the missing category
\* (serial_number for get_facts; fans, power_supplies or resource_utilization
\* for get_environment, unless normalising an earlier category has raised).
C14_ErrorNamesMissingCategory ==
    /\ (last.op = "get_facts" /\ last.vendor = "ok" /\ WithSerial = {}) =>
          /\ last.raised # "none"
          /\ last.value = PyStr("serial_number")
    /\ (last.op = "get_environment" /\ last.vendor = "ok"
        /\ MissingCategories # {}) =>
          /\ last.raised # "none"
          /\ \/ \E c \in MissingCategories : last.value = PyStr(c)
             \/ last.raised = "KeyError" /\ last.value = PyNone

\* the decimal digits of a natural number
RECURSIVE DecimalOf(_)
DecimalOf(n) ==
    IF n < 10 THEN <<DigitChars[n + 1]>>
    ELSE DecimalOf(n \div 10) \o <<DigitChars[(n % 10) + 1]>>
\* the CIDR string an entry of the result stands for
Cidr(addresses, key) ==
    key \o <<"/">> \o DecimalOf(addresses[key].prefix_length[2])
\* the addresses of one interface of the snapshot
Ip4Given(details) ==
    IF Has(details, "ip4_address") /\ details["ip4_address"] # PyNone
       /\ details["ip4_address"] # PyStr(<<>>)
    THEN {details["ip4_address"][2]} ELSE {}
LinkLocalGiven(details) ==
    IF Has(details, "ip6_address_link_local")
    THEN Keys(details["ip6_address_link_local"]) ELSE {}
ListedGiven(name) ==
    IF Has(interface_info[name], "ip6_addresses")
    THEN {interface_info[name]["ip6_addresses"][i] :
             i \in 1..Len(interface_info[name]["ip6_addresses"])}
    ELSE {}
\* the part of a CIDR string before its last '/'
Bare(cidr) == SubSeq(cidr, 1, (CHOOSE i \in 1..Len(cidr) :
                     cidr[i] = "/" /\ \A j \in (i + 1)..Len(cidr) : cidr[j] # "/") - 1)

\* C15: in what get_interfaces_ip returns, an interface has "ipv4" iff its
\* ip4_address is present and non-empty, and then it is the one entry keyed by
\* the part before the last '/' whose prefix_length is the number after it; it
\* has "ipv6" iff it has link-local or listed addresses, keyed by their bare
\* addresses, each entry standing for a listed address, or for a link-local
\* one when no listed address has the same bare address.
C15_CidrSplitAndMerge ==
    (last.op = "get_interfaces_ip" /\ last.vendor = "ok") =>
      /\ last.raised = "none"
      /\ \A i \in 1..Len(interface_list) :
           LET name == interface_list[i][1]
               details == interface_list[i][2]
               ip4 == Ip4Given(details)
               local == LinkLocalGiven(details)
               listed == ListedGiven(name)
               out == IF Has(last.value, name) THEN last.value[name] ELSE EmptyDict
           IN  /\ Has(last.value, name) <=> (ip4 \cup local \cup listed # {})
               /\ Has(out, "ipv4") <=> ip4 # {}
               /\ Has(out, "ipv4") =>
                     /\ DOMAIN out["ipv4"] = {Bare(a) : a \in ip4}
                     /\ \A k \in DOMAIN out["ipv4"] : Cidr(out["ipv4"], k) \in ip4
               /\ Has(out, "ipv6") <=> (local \cup listed # {})
               /\ Has(out, "ipv6") =>
                     /\ DOMAIN out["ipv6"] = {Bare(a) : a \in local \cup listed}
                     /\ \A k \in DOMAIN out["ipv6"] :
                           IF \E a \in listed : Bare(a) = k
                           THEN Cidr(out["ipv6"], k) \in listed
                           ELSE Cidr(out["ipv6"], k) \in local

C15_Witness ==
    /\ last.op = "get_interfaces_ip" /\ last.raised = "none"
    /\ \E name \in DOMAIN last.value :
          /\ DOMAIN last.value[name] = {"ipv4", "ipv6"}
          /\ DOMAIN last.value[name]["ipv6"]
               = {<<"f", "e", "8", "0", ":", ":", "1">>,
                  <<"2", "0", "0", "1", ":", ":", "1">>}
          /\ last.value[name]["ipv4"]
               = (<<"1", "0", ".", "0", ".", "0", ".", "1">>
                    :> [prefix_length |-> PyInt(24)])
          /\ LinkLocalCidr \in LinkLocalGiven(FactsOf(interface_list, name))
          /\ last.value[name]["ipv6"][<<"f", "e", "8", "0", ":", ":", "1">>]
               = [prefix_length |-> PyInt(128)]
          /\ last.value[name]["ipv6"][<<"2", "0", "0", "1", ":", ":", "1">>]
               = [prefix_length |-> PyInt(48)]

\* the VLAN ids (as written) of a membership field that is present and
\* non-empty, otherwise none
FieldIds(facts, key) ==
    IF Has(facts, key) /\ facts[key] # PyNone
    THEN {facts[key][2][i][1] : i \in 1..PyLen(facts[key])} ELSE {}
\* the membership source: the trunk list when it has ids, else the tagged field
MembershipSource(facts) ==
    IF FieldIds(facts, "applied_vlan_trunks") # {}
    THEN FieldIds(facts, "applied_vlan_trunks")
    ELSE FieldIds(facts, "applied_vlan_tag")
PositionOf(name) == CHOOSE i \in 1..Len(interface_list) : interface_list[i][1] = name

\* C16: what get_vlans returns has exactly one integer key per VLAN of the
\* VLAN list, with its name; an interface is in a VLAN's interfaces iff its
\* name contains '/' and the VLAN id is in its membership source (trunk list
\* when present and non-empty, else tagged field when present and non-empty,
\* else nothing); names are in interface order, once each; a VLAN without
\* members has an empty list.
C16_VlanMembership ==
    (last.op = "get_vlans" /\ last.raised = "none") =>
      /\ Cardinality(DOMAIN last.value) = Len(vlan_list)
      /\ \A i \in 1..Len(vlan_list) :
           \E id \in DOMAIN last.value :
              LET members == last.value[id].interfaces
              IN  /\ DecimalOf(id) = vlan_list[i][1]
                  /\ last.value[id].name = vlan_list[i][2].name
                  /\ \A k \in 1..Len(interface_list) :
                        InSeq(members, interface_list[k][1])
                          <=> /\ InSeq(interface_list[k][1], "/")
                              /\ vlan_list[i][1]
                                   \in MembershipSource(interface_list[k][2])
                  /\ \A a, b \in 1..Len(members) :
                        a < b => PositionOf(members[a]) < PositionOf(members[b])
                  /\ \A a \in 1..Len(members) :
                        members[a] \in Keys(interface_list)

C16_Witness ==
    /\ last.op = "get_vlans" /\ last.raised = "none"
    /\ DOMAIN last.value = {10, 20}
    /\ last.value[10] = [name |-> PyStr("default"),
                         interfaces |-> <<<<"1", "/", "1", "/", "1">>>>]
    /\ last.value[20] = [name |-> PyStr("data"), interfaces |-> <<>>]
    /\ \E i, j \in 1..Len(interface_list) :
          /\ interface_list[i][1] = <<"1", "/", "1", "/", "1">>
          /\ ~Has(interface_list[i][2], "applied_vlan_trunks")
             \/ interface_list[i][2]["applied_vlan_trunks"] = PyNone
          /\ FieldIds(interface_list[i][2], "applied_vlan_tag") = {VlanId10}
          /\ interface_list[j][1] = <<"l", "a", "g", "1">>
          /\ FieldIds(interface_list[j][2], "applied_vlan_trunks")
               = {VlanId10, VlanId20}

MacTableReturned == last.op = "get_mac_address_table" /\ last.raised = "none"
\* the MAC bindings of the VLANs fetched: <<VLAN id, compound key>>
MacBindings ==
    UNION {{<<vlan_list[i][1], mac_table[vlan_list[i][1]][j][1]>> :
               j \in 1..Len(mac_table[vlan_list[i][1]])} :
           i \in 1..Len(vlan_list)}
\* the part of a compound key after its first comma
AddressOf(key) ==
    SubSeq(key, 1 + (CHOOSE n \in 1..Len(key) :
                        key[n] = "," /\ \A j \in 1..(n - 1) : key[j] # ","),
           Len(key))
TypeOf(key) == SubSeq(key, 1, Len(key) - Len(AddressOf(key)) - 1)

\* C17: get_mac_address_table returns one record for each MAC entry of each
\* VLAN: every binding of every VLAN's collection has its record, there are
\* no other records, and VLANs without entries contribute nothing.
C17_EveryMacBindingReturned ==
    MacTableReturned =>
        /\ Len(last.value) = Cardinality(MacBindings)
        /\ \A b \in MacBindings :
              \E i \in 1..Len(last.value) :
                 /\ last.value[i].vlan = PyInt(IntOfChars(b[1]))
                 /\ last.value[i].mac = PyStr(AddressOf(b[2]))

\* C18: every record get_mac_address_table returns comes from a compound key
\* "type,address" of the VLAN it names: mac is the part after the comma,
\* static is true iff the part before it is "static", active is true, moves
\* and last_move are null.
C18_RecordFromCompoundKey ==
    MacTableReturned =>
        \A i \in 1..Len(last.value) :
           LET r == last.value[i]
           IN  /\ \E b \in MacBindings :
                     /\ r.vlan = PyInt(IntOfChars(b[1]))
                     /\ r.mac = PyStr(AddressOf(b[2]))
                     /\ r.static
                          = PyBool(TypeOf(b[2]) = <<"s", "t", "a", "t", "i", "c">>)
               /\ r.active = PyBool(TRUE)
               /\ r.moves = PyNone
               /\ r.last_move = PyNone

C18_Witness ==
    /\ MacTableReturned
    /\ Len(last.value) = 2
    /\ last.value[1].static = PyBool(TRUE)
    /\ last.value[1].mac = PyStr(<<"a", "a", ":", "b", "b", ":", "c", "c", ":",
                                   "d", "d", ":", "e", "e", ":", "f", "f">>)
    /\ last.value[2].static = PyBool(FALSE)
    /\ last.value[2].mac = PyStr(AddressOf(DynamicMac[1]))

ConfigKinds == {"running", "startup", "candidate", "all"}
\* the text get_config has to report for a kind of configuration
Fetched(kind) ==
    IF last.args.retrieve \in {kind, "all"} THEN PyStr(configs[kind]) ELSE PyStr("")

\* C19: get_config for retrieve in {running, startup, candidate, all} returns
\* exactly the keys running, startup and candidate, running and startup being
\* the fetched text when asked for (by name or by "all") and "" otherwise,
\* candidate always ""; a reply that is not OK ends the call in
\* MergeConfigException carrying that reply's status code and body; no
\* request is issued twice and none follows the failed one.
C19_ConfigMappingOrError ==
    (last.op = "get_config" /\ last.args.retrieve \in ConfigKinds) =>
      /\ last.raised = "none" =>
            /\ DOMAIN last.value = {"running", "startup", "candidate"}
            /\ last.value.running = Fetched("running")
            /\ last.value.startup = Fetched("startup")
            /\ last.value.candidate = PyStr("")
            /\ \A i \in 1..Len(requests) : ResponseOk(requests[i].resp)
      /\ \A i \in 1..Len(requests) :
            (requests[i].resp # TransportError /\ requests[i].resp.status_code >= 400)
              => /\ i = Len(requests)
                 /\ last.raised = "MergeConfigException"
                 /\ last.value[2][3] = requests[i].resp.status_code
                 /\ last.value[2][4] = requests[i].resp.text
      /\ last.raised = "MergeConfigException" =>
            /\ requests # <<>>
            /\ ~ResponseOk(requests[Len(requests)].resp)
      /\ \A i, j \in 1..Len(requests) : i # j => requests[i].url # requests[j].url

C19_Witness ==
    /\ last.op = "get_config" /\ last.args.retrieve = "all"
    /\ last.raised = "MergeConfigException"
    /\ last.value = PyStr(<<"Startup-config", "fetch failed:", 500,
                            "Internal Server Error">>)
    /\ Len(requests) = 2
    /\ requests[1].resp = Response(200, "hostname sw1")


\* the operations that turn a snapshot of the vendor client into a result
NormalizationOps ==
    {"get_interfaces", "get_interfaces_counters", "get_lldp_neighbors",
     "get_lldp_neighbors_detail", "get_environment", "get_interfaces_ip",
     "get_mac_address_table", "get_vlans"}

\* a step that repeats the call before it: the same normalization operation
\* with the same arguments, the vendor client answering both times
SecondCall ==
    /\ last.op \in NormalizationOps
    /\ last'.op = last.op
    /\ last'.args = last.args
    /\ last.vendor = "ok"
    /\ last'.vendor = "ok"

\* C20: a normalization operation called twice in a row, the vendor client
\* answering with the same snapshot object, ends the second time as it ended
\* the first time: the same result, or the same error. Nothing the first call
\* left in the driver or wrote into the snapshot changes the second call.
C20_SecondCallSameResult ==
    [][SecondCall => /\ last'.raised = last.raised
                     /\ last'.value = last.value]_vars

\* get_interfaces has returned and has written an empty description into the
\* snapshot, which is what the next call is given; by C20 it is also the state
\* that call ends in
C20_Witness ==
    /\ last.op = "get_interfaces"
    /\ last.vendor = "ok"
    /\ last.raised = "none"
    /\ Len(interface_list) >= 2
    /\ \E i \in 1..Len(interface_list) :
          /\ Has(interface_list[i][2], "description")
          /\ interface_list[i][2]["description"] = PyStr("")
          /\ last.value[interface_list[i][1]].description = PyStr("")
    /\ \E i \in 1..Len(interface_list) :
          /\ Has(interface_list[i][2], "description")
          /\ interface_list[i][2]["description"] = PyStr("uplink")

\* the operations that open or close the session
SessionOps == {"open", "close"}

\* C21: a step of any operation other than open and close (is_alive, every
\* fact operation, get_config), whether the call returns or raises, leaves the
\* session handle, the liveness flag and the stored session info as they were.
C21_OnlyOpenCloseChangeSession ==
    [][last'.op \notin SessionOps =>
          /\ session' = session
          /\ isAlive' = isAlive
          /\ session_info' = session_info]_vars

\* get_config has failed on a request it issued through an opened driver,
\* which is alive and holds its session still
C21_Witness ==
    /\ isAlive
    /\ session # 0
    /\ session_info # 0
    /\ last.op = "get_config"
    /\ last.raised = "MergeConfigException"
    /\ requests # <<>>

\* the URLs of the requests the last get_config issued, in order
RequestedUrls == [i \in 1..Len(requests) |-> requests[i].url]
\* a request that did not bring a text: the transport raised, or the reply is
\* not OK
FetchFailed(request) ==
    request.resp = TransportError \/ ~ResponseOk(request.resp)

\* C22: get_config with a retrieve value outside running, startup, candidate
\* and all raises ValueError having issued no request; with "candidate" it
\* issues no request; with "all" the request for the running configuration
\* comes first and the one for the startup configuration second, and when the
\* running fetch fails the call raises with the startup request never issued.
C22_ConfigOrdering ==
    last.op = "get_config" =>
        /\ last.args.retrieve \notin ConfigKinds =>
              last.raised = "ValueError" /\ requests = <<>>
        /\ last.args.retrieve = "candidate" =>
              last.raised = "none" /\ requests = <<>>
        /\ last.args.retrieve = "all" =>
              /\ RequestedUrls \in {<<"configs/running-config">>,
                                     <<"configs/running-config",
                                       "configs/startup-config">>}
              /\ IF FetchFailed(requests[1])
                 THEN Len(requests) = 1 /\ last.raised # "none"
                 ELSE Len(requests) = 2

\* get_config("all") whose running fetch was refused: one request, an error
C22_Witness ==
    /\ last.op = "get_config"
    /\ last.args.retrieve = "all"
    /\ RequestedUrls = <<"configs/running-config">>
    /\ requests[1].resp.status_code = 500
    /\ last.raised = "MergeConfigException"
=============================================================================
